---- MODULE Spec2Model ----
(***************************************************************************)
(* A model of the CHIP-8 interpreter of zmeadows/chip8, version 0.3: the   *)
(* emulator module of src/src/chip8_emulator.cpp (lines 1-632), the        *)
(* sync_flag of src/src/chip8_flag.hpp and the four threads started by     *)
(* run().                                                                  *)
(*                                                                         *)
(* Spec    the emulator's entry points (emulate_cycle, update_user_input,  *)
(*         decrement_timers) called one after the other, each call running *)
(*         to completion.                                                  *)
(* SpecMT  the emulation thread and the render thread of run(), at the     *)
(*         granularity of their mutex sections and unprotected accesses.   *)
(***************************************************************************)
EXTENDS Integers, Sequences, FiniteSets, TLC

(***************************************************************************)
(* Program constants.                                                      *)
(***************************************************************************)
memory_size_bytes == 4096
rom_memory_offset == 512
allowed_rom_memory == memory_size_bytes - rom_memory_offset
display_grid_width == 64
display_grid_height == 32
pixel_count == display_grid_width * display_grid_height
max_stack_depth == 16
user_input_key_count == 16
register_count == 16

(***************************************************************************)
(* Bounds of the model.                                                    *)
(***************************************************************************)
\* emulate_cycle is not called once cycles_emulated has reached MaxCycles
MaxCycles == 72
\* the keys 0 .. NumKeys-1 are the ones the user ever presses
NumKeys == 2
\* ROMs of up to MaxRomLen instructions over Alphabet are loaded besides Programs
MaxRomLen == 1

None == -1

Byte == 0 .. 255

(***************************************************************************)
(* Fixed-width arithmetic.                                                 *)
(***************************************************************************)
RECURSIVE BitAnd(_, _)
BitAnd(a, b) ==
    IF a = 0 \/ b = 0 THEN 0
    ELSE ((a % 2) * (b % 2)) + 2 * BitAnd(a \div 2, b \div 2)

RECURSIVE BitOr(_, _)
BitOr(a, b) ==
    IF a = 0 THEN b
    ELSE IF b = 0 THEN a
    ELSE (IF (a % 2) + (b % 2) > 0 THEN 1 ELSE 0) + 2 * BitOr(a \div 2, b \div 2)

RECURSIVE BitXor(_, _)
BitXor(a, b) ==
    IF a = 0 THEN b
    ELSE IF b = 0 THEN a
    ELSE (((a % 2) + (b % 2)) % 2) + 2 * BitXor(a \div 2, b \div 2)

RECURSIVE Pow2(_)
Pow2(n) == IF n = 0 THEN 1 ELSE 2 * Pow2(n - 1)

\* 8-bit arithmetic that saturates instead of wrapping
U8_saturating(x) == IF x > 255 THEN 255 ELSE IF x < 0 THEN 0 ELSE x

U8(x) == x % 256
U16(x) == x % 65536

\* the digits counted from the least significant one
ith_hex_digit_from_low(index, opcode) ==
    LET offset == index * 4
        mask == U16(15 * Pow2(offset))
    IN  BitAnd(mask, opcode) \div Pow2(offset)

\* (mask & opcode) >> offset with offset = 12 - index * 4 and mask = 0x000F << offset
ith_hex_digit(index, opcode) ==
    LET offset == 12 - index * 4
        mask == U16(15 * Pow2(offset))
    IN  BitAnd(mask, opcode) \div Pow2(offset)

chip8_fontset ==
    << 240, 144, 144, 144, 240,
       32, 96, 32, 32, 112,
       240, 16, 240, 128, 240,
       240, 16, 240, 16, 240,
       144, 144, 240, 16, 16,
       240, 128, 240, 16, 240,
       240, 128, 240, 144, 240,
       240, 16, 32, 64, 64,
       240, 144, 240, 144, 240,
       240, 144, 240, 16, 240,
       240, 144, 240, 144, 144,
       224, 144, 224, 144, 224,
       240, 128, 128, 128, 240,
       224, 144, 144, 144, 224,
       240, 128, 240, 128, 240,
       240, 128, 240, 128, 128 >>


(***************************************************************************)
(* The emulator's state (the variables of namespace chip8::emulator).      *)
(***************************************************************************)
VARIABLES
    memory,                  \* uint8_t memory[4096]: the bytes that are not 0,
                             \* by address (MemAt reads it, MemPut writes it)
    gfx,                     \* bool gfx[2048], row-major: the set of the
                             \* indices i with gfx[i] true
    stack_trace,             \* uint16_t stack_trace[16]
    V,                       \* uint8_t V[16]
    input,                   \* bool input[16]
    idx,                     \* index register
    pc,                      \* program counter
    sp,                      \* stack "pointer"
    delay_timer,
    sound_timer,
    register_awaiting_input, \* std::optional<uint16_t>, None when empty
    cycles_emulated,
    draw_flag,               \* _draw_flag.flag
    beep_flag,               \* _beep_flag.flag
    status,                  \* "running", or how the process ended
    last,                    \* history: the entry point that ran last, with the
                             \* values it found on entry
    calls,                   \* history: the 2NNN instructions executed and not
                             \* yet returned from, oldest first
    input_mutex,             \* the thread holding it, or NoThread
    gfx_mutex,
    epc,                     \* where the emulation thread is in emulate_cycle
    e_opcode,                \* emulate_cycle's locals opcode, bump_pc, i and
    e_bump_pc,               \* screen_updated
    e_i,
    e_screen_updated,
    e_reg,                   \* the value the emulation thread loaded for a += or ++
    rpc,                     \* where the render thread is in its loop
    draw_requested,          \* render_thread_func's local
    input_buffer,            \* chip8::glfw's key array, written by key_callback
    r_reg,                   \* the value the render thread loaded for a += or ++
    buffer,                  \* the array copy_screen_state filled last
    timer_mutex,             \* the thread holding it, or NoThread
    tpc,                     \* where the timer thread is in its loop
    e_old_value,             \* set_sound_timer's local old_value
    digit_opcode,            \* the argument of a call of ith_hex_digit
    digit_index,             \* its template argument index
    digit,                   \* what the call returned, None before it
    now,                     \* chip8::clock::now(), in half periods of 1/60 s
    last_access_time,        \* Timer::last_access_time
    value,                   \* Timer::value
    written,                 \* history: the last Timer::write, its value and time
    returned,                \* history: the last Timer::read since the write,
                             \* its result and time
    shutdown_flag,           \* chip8::glfw::shutdown_flag()
    emu_thread,              \* where each thread of run() is in its function,
    audio_thread,            \* "done" once it has returned
    timer_thread,
    render_thread,
    run_pc,                  \* where run() itself is
    beep_calls,              \* history: the calls of start_beep and stop_beep
    frame                    \* history: the display as the last completed 00E0
                             \* or DXYN left it

emuVars == << memory, gfx, stack_trace, V, input, idx, pc, sp, delay_timer,
              sound_timer, register_awaiting_input, cycles_emulated,
              draw_flag, beep_flag, status >>

\* the emulator's state as one value, for the operators below
Cur ==
    [ memory |-> memory, gfx |-> gfx, stack_trace |-> stack_trace, V |-> V,
      input |-> input, idx |-> idx, pc |-> pc, sp |-> sp,
      delay_timer |-> delay_timer, sound_timer |-> sound_timer,
      register_awaiting_input |-> register_awaiting_input,
      cycles_emulated |-> cycles_emulated, draw_flag |-> draw_flag,
      beep_flag |-> beep_flag, status |-> status ]

Install(m) ==
    /\ memory' = m.memory
    /\ gfx' = m.gfx
    /\ stack_trace' = m.stack_trace
    /\ V' = m.V
    /\ input' = m.input
    /\ idx' = m.idx
    /\ pc' = m.pc
    /\ sp' = m.sp
    /\ delay_timer' = m.delay_timer
    /\ sound_timer' = m.sound_timer
    /\ register_awaiting_input' = m.register_awaiting_input
    /\ cycles_emulated' = m.cycles_emulated
    /\ draw_flag' = m.draw_flag
    /\ beep_flag' = m.beep_flag
    /\ status' = m.status

(***************************************************************************)
(* How the process ends.  assert() is compiled in (neither the build       *)
(* script nor the CMake file defines NDEBUG), so a failed assertion aborts.*)
(* An access outside an array is undefined behaviour: the model records it *)
(* in status and does not follow the process any further.                  *)
(***************************************************************************)
Running == "running"
Exited == "exited"      \* panic_opcode: exit(1)
Aborted == "aborted"    \* assert failed
Undefined == "ub"       \* undefined behaviour happened

\* memory[addr], for addr < memory_size_bytes
MemAt(mem, addr) == IF addr \in DOMAIN mem THEN mem[addr] ELSE 0

\* the array mem after memory[addr] = val, for addr < memory_size_bytes
MemPut(mem, addr, val) ==
    [a \in (IF val = 0 THEN DOMAIN mem \ {addr} ELSE DOMAIN mem \cup {addr}) |->
        IF a = addr THEN val ELSE mem[a]]

panic_opcode(m) == [m EXCEPT !.status = Exited]

assert_fail(m) == [m EXCEPT !.status = Aborted]

clear_screen(m) ==
    [m EXCEPT !.gfx = {i \in 0 .. pixel_count - 1 : FALSE},
              !.draw_flag = TRUE]

read_delay_timer(m) == m.delay_timer

set_delay_timer(m, new_value) == [m EXCEPT !.delay_timer = new_value]

set_sound_timer(m, new_value) ==
    LET old_value == m.sound_timer
    IN  [m EXCEPT !.sound_timer = new_value,
                  !.beep_flag = IF new_value > 0 /\ old_value = 0 THEN TRUE
                                ELSE IF new_value = 0 /\ old_value > 0 THEN FALSE
                                ELSE @]

\* a reset that leaves the registers and the timers as they are
reset_keeping_registers(m) ==
    LET m1 == [m EXCEPT
                 !.memory = [a \in {i \in 0 .. 79 : chip8_fontset[i + 1] # 0} |->
                               chip8_fontset[a + 1]]]
        m2 == clear_screen(m1)
        m3 == [m2 EXCEPT
                 !.stack_trace = [i \in 0 .. max_stack_depth - 1 |-> 0],
                 !.input = [i \in 0 .. user_input_key_count - 1 |-> FALSE],
                 !.register_awaiting_input = None,
                 !.idx = 0,
                 !.pc = 512,
                 !.sp = 0]
    IN  [m3 EXCEPT !.cycles_emulated = 0]

reset(m) ==
    LET m1 == [m EXCEPT
                 !.memory = [a \in {i \in 0 .. 79 : chip8_fontset[i + 1] # 0} |->
                               chip8_fontset[a + 1]]]
        m2 == clear_screen(m1)
        m3 == [m2 EXCEPT
                 !.stack_trace = [i \in 0 .. max_stack_depth - 1 |-> 0],
                 !.V = [i \in 0 .. register_count - 1 |-> 0],
                 !.input = [i \in 0 .. user_input_key_count - 1 |-> FALSE],
                 !.register_awaiting_input = None,
                 !.idx = 0,
                 !.pc = 512,
                 !.sp = 0]
        m4 == set_sound_timer(set_delay_timer(m3, 0), 0)
    IN  [m4 EXCEPT !.cycles_emulated = 0]

\* the state of the module before init: zero-initialised statics
StaticInit ==
    [ memory |-> [a \in {} |-> 0],
      gfx |-> {},
      stack_trace |-> [i \in 0 .. max_stack_depth - 1 |-> 0],
      V |-> [i \in 0 .. register_count - 1 |-> 0],
      input |-> [i \in 0 .. user_input_key_count - 1 |-> FALSE],
      idx |-> 0, pc |-> 0, sp |-> 0, delay_timer |-> 0, sound_timer |-> 0,
      register_awaiting_input |-> None, cycles_emulated |-> 0,
      draw_flag |-> FALSE, beep_flag |-> FALSE, status |-> Running ]

\* memory[rom_memory_offset + i] = buffer[i] for every i below the file's size
LoadRom(mem, rom) ==
    LET Target == rom_memory_offset .. rom_memory_offset + Len(rom) - 1
        byte(a) == rom[a - rom_memory_offset + 1]
    IN  [a \in (DOMAIN mem \ Target) \cup {t \in Target : byte(t) # 0} |->
            IF a \in Target THEN byte(a) ELSE mem[a]]

\* init refusing a file that fills the memory after 0x200 exactly
init_size_ge(m, rom) ==
    IF Len(rom) >= allowed_rom_memory THEN [m EXCEPT !.status = Exited]
    ELSE LET r == reset(m)
         IN  [r EXCEPT !.memory = LoadRom(r.memory, rom)]

\* init(rom_path) for a ROM file holding the bytes of the sequence rom
init(m, rom) ==
    IF Len(rom) > allowed_rom_memory THEN [m EXCEPT !.status = Exited]
    ELSE LET r == reset(m)
         IN  [r EXCEPT !.memory = LoadRom(r.memory, rom)]


(***************************************************************************)
(* The opcode handlers.  Each takes the emulator's state m and returns the *)
(* state it leaves.  Vx, Vy and Vf are references in the code, so every    *)
(* read goes to the register array as the preceding writes left it.        *)
(***************************************************************************)

\* memory[addr] = val; a store past the end of the array is undefined behaviour
MemWrite(m, addr, val) ==
    IF addr < memory_size_bytes
    THEN [m EXCEPT !.memory = MemPut(@, addr, val)]
    ELSE [m EXCEPT !.status = Undefined]

\* memory[addr]; a load past the end of the array yields whatever byte nd is there
MemRead(m, addr, nd) ==
    IF addr < memory_size_bytes THEN MemAt(m.memory, addr) ELSE nd

\* 00EE without the assertion on sp
emulate_0x0NNN_opcode_cycle_unasserted(m, opcode) ==
    IF opcode = 224 THEN clear_screen(m)
    ELSE IF opcode = 238
         THEN [m EXCEPT !.sp = U16(m.sp - 1),
                        !.pc = IF m.sp > 0 THEN m.stack_trace[m.sp - 1] ELSE 0,
                        !.status = IF m.sp > 0 THEN @ ELSE Undefined]
         ELSE panic_opcode(m)

emulate_0x0NNN_opcode_cycle(m, opcode) ==
    IF opcode = 224 THEN clear_screen(m)                       \* 00E0
    ELSE IF opcode = 238                                       \* 00EE
         THEN IF ~(m.sp > 0) THEN assert_fail(m)
              ELSE [m EXCEPT !.sp = m.sp - 1,
                             !.pc = m.stack_trace[m.sp - 1]]
         ELSE panic_opcode(m)

\* 8XYN with the borrow flags of 8XY5 and 8XY7 set on >= instead of >
emulate_0x8XYN_opcode_cycle_borrow_ge(m, opcode) ==
    LET X == ith_hex_digit(1, opcode)
        Y == ith_hex_digit(2, opcode)
        N == BitAnd(opcode, 15)
        Flagged(f, g(_, _)) ==
            LET V1 == [m.V EXCEPT ![15] = f]
            IN  [m EXCEPT !.V = [V1 EXCEPT ![X] = g(V1[X], V1[Y])]]
        Plain(g(_, _)) == [m EXCEPT !.V[X] = g(m.V[X], m.V[Y])]
        Ld(a, b) == b
        Add(a, b) == U8(a + b)
        Sub(a, b) == U8(a - b)
        Shr(a, b) == a \div 2
        SubN(a, b) == U8(b - a)
        Shl(a, b) == U8(a * 2)
    IN  CASE N = 0 -> Plain(Ld)
          [] N = 1 -> Plain(BitOr)
          [] N = 2 -> Plain(BitAnd)
          [] N = 3 -> Plain(BitXor)
          [] N = 4 -> Flagged(IF m.V[Y] > 255 - m.V[X] THEN 1 ELSE 0, Add)
          [] N = 5 -> Flagged(IF m.V[X] >= m.V[Y] THEN 1 ELSE 0, Sub)
          [] N = 6 -> Flagged(BitAnd(m.V[X], 1), Shr)
          [] N = 7 -> Flagged(IF m.V[Y] >= m.V[X] THEN 1 ELSE 0, SubN)
          [] N = 14 -> Flagged(IF m.V[X] >= 128 THEN 1 ELSE 0, Shl)
          [] OTHER -> panic_opcode(m)

\* 8XYN with the shifts of 8XY6 and 8XYE taking their operand from Vy
emulate_0x8XYN_opcode_cycle_shift_vy(m, opcode) ==
    LET X == ith_hex_digit(1, opcode)
        Y == ith_hex_digit(2, opcode)
        N == BitAnd(opcode, 15)
        Flagged(f, g(_, _)) ==
            LET V1 == [m.V EXCEPT ![15] = f]
            IN  [m EXCEPT !.V = [V1 EXCEPT ![X] = g(V1[X], V1[Y])]]
        Plain(g(_, _)) == [m EXCEPT !.V[X] = g(m.V[X], m.V[Y])]
        Ld(a, b) == b
        Add(a, b) == U8(a + b)
        Sub(a, b) == U8(a - b)
        Shr(a, b) == b \div 2
        SubN(a, b) == U8(b - a)
        Shl(a, b) == U8(b * 2)
    IN  CASE N = 0 -> Plain(Ld)
          [] N = 1 -> Plain(BitOr)
          [] N = 2 -> Plain(BitAnd)
          [] N = 3 -> Plain(BitXor)
          [] N = 4 -> Flagged(IF m.V[Y] > 255 - m.V[X] THEN 1 ELSE 0, Add)
          [] N = 5 -> Flagged(IF m.V[X] > m.V[Y] THEN 1 ELSE 0, Sub)
          [] N = 6 -> Flagged(BitAnd(m.V[Y], 1), Shr)
          [] N = 7 -> Flagged(IF m.V[Y] > m.V[X] THEN 1 ELSE 0, SubN)
          [] N = 14 -> Flagged(IF m.V[Y] >= 128 THEN 1 ELSE 0, Shl)
          [] OTHER -> panic_opcode(m)

emulate_0x8XYN_opcode_cycle(m, opcode) ==
    LET X == ith_hex_digit(1, opcode)
        Y == ith_hex_digit(2, opcode)
        N == BitAnd(opcode, 15)
        \* Vf = f; then Vx = g(Vx, Vy) on the registers that assignment left
        Flagged(f, g(_, _)) ==
            LET V1 == [m.V EXCEPT ![15] = f]
            IN  [m EXCEPT !.V = [V1 EXCEPT ![X] = g(V1[X], V1[Y])]]
        Plain(g(_, _)) == [m EXCEPT !.V[X] = g(m.V[X], m.V[Y])]
        Ld(a, b) == b
        Add(a, b) == U8(a + b)
        Sub(a, b) == U8(a - b)
        Shr(a, b) == a \div 2
        SubN(a, b) == U8(b - a)
        Shl(a, b) == U8(a * 2)
    IN  CASE N = 0 -> Plain(Ld)
          [] N = 1 -> Plain(BitOr)
          [] N = 2 -> Plain(BitAnd)
          [] N = 3 -> Plain(BitXor)
          [] N = 4 -> Flagged(IF m.V[Y] > 255 - m.V[X] THEN 1 ELSE 0, Add)
          [] N = 5 -> Flagged(IF m.V[X] > m.V[Y] THEN 1 ELSE 0, Sub)
          [] N = 6 -> Flagged(BitAnd(m.V[X], 1), Shr)
          [] N = 7 -> Flagged(IF m.V[Y] > m.V[X] THEN 1 ELSE 0, SubN)
          [] N = 14 -> Flagged(IF m.V[X] >= 128 THEN 1 ELSE 0, Shl)
          [] OTHER -> panic_opcode(m)

\* the case 0x000A of the FXNN switch
IsWaitOpcode(op) == op \div 4096 = 15 /\ op % 256 = 10

\* FX0A blanking the display while it waits
wait_for_key_blanking(m, X) ==
    [m EXCEPT !.register_awaiting_input = X, !.gfx = {}]

\* FX0A: register_awaiting_input = X; return;  The return leaves this handler
\* only: emulate_cycle goes on after the call.
wait_for_key(m, X) == [m EXCEPT !.register_awaiting_input = X]

\* the loop of FX55 stopping before Vx
RECURSIVE StoreRegisters_exclusive(_, _, _, _)
StoreRegisters_exclusive(m, I, X, i) ==
    IF i >= X THEN m
    ELSE StoreRegisters_exclusive(MemWrite(m, I + i, m.V[i]), I, X, i + 1)

RECURSIVE StoreRegisters(_, _, _, _)
StoreRegisters(m, I, X, i) ==
    IF i > X THEN m
    ELSE StoreRegisters(MemWrite(m, I + i, m.V[i]), I, X, i + 1)

RECURSIVE LoadRegisters(_, _, _, _, _)
LoadRegisters(m, I, X, i, nd) ==
    IF i > X THEN m
    ELSE LoadRegisters(
             [m EXCEPT !.V[i] = MemRead(m, I + i, nd),
                       !.status = IF I + i < memory_size_bytes THEN @
                                  ELSE Undefined],
             I, X, i + 1, nd)

\* FXNN with FX29 taking the glyphs to be 4 bytes apart
emulate_0xFXNN_opcode_cycle_font_stride4(m, opcode, nd) ==
    LET I == m.idx
        X == ith_hex_digit(1, opcode)
        Vx == m.V[X]
        NN == BitAnd(opcode, 255)
    IN  CASE NN = 7 -> [m EXCEPT !.V[X] = read_delay_timer(m)]
          [] NN = 10 -> wait_for_key(m, X)
          [] NN = 21 -> set_delay_timer(m, Vx)
          [] NN = 24 -> set_sound_timer(m, Vx)
          [] NN = 30 -> [m EXCEPT !.idx = U16(m.idx + Vx)]
          [] NN = 41 -> LET m1 == [m EXCEPT !.idx = 4 * Vx]
                        IN  IF m1.idx < 80 THEN m1 ELSE assert_fail(m1)
          [] NN = 51 -> MemWrite(MemWrite(MemWrite(m, I, (Vx \div 100) % 10),
                                          I + 1, (Vx \div 10) % 10),
                                 I + 2, Vx % 10)
          [] NN = 85 -> StoreRegisters(m, I, X, 0)
          [] NN = 101 -> LoadRegisters(m, I, X, 0, nd)
          [] OTHER -> panic_opcode(m)

\* FXNN with FX33 storing the ones digit first
emulate_0xFXNN_opcode_cycle_bcd_reversed(m, opcode, nd) ==
    LET I == m.idx
        X == ith_hex_digit(1, opcode)
        Vx == m.V[X]
        NN == BitAnd(opcode, 255)
    IN  CASE NN = 7 -> [m EXCEPT !.V[X] = read_delay_timer(m)]
          [] NN = 10 -> wait_for_key(m, X)
          [] NN = 21 -> set_delay_timer(m, Vx)
          [] NN = 24 -> set_sound_timer(m, Vx)
          [] NN = 30 -> [m EXCEPT !.idx = U16(m.idx + Vx)]
          [] NN = 41 -> LET m1 == [m EXCEPT !.idx = 5 * Vx]
                        IN  IF m1.idx < 80 THEN m1 ELSE assert_fail(m1)
          [] NN = 51 -> MemWrite(MemWrite(MemWrite(m, I, Vx % 10),
                                          I + 1, (Vx \div 10) % 10),
                                 I + 2, (Vx \div 100) % 10)
          [] NN = 85 -> StoreRegisters(m, I, X, 0)
          [] NN = 101 -> LoadRegisters(m, I, X, 0, nd)
          [] OTHER -> panic_opcode(m)

emulate_0xFXNN_opcode_cycle(m, opcode, nd) ==
    LET I == m.idx
        X == ith_hex_digit(1, opcode)
        Vx == m.V[X]
        NN == BitAnd(opcode, 255)
    IN  CASE NN = 7 -> [m EXCEPT !.V[X] = read_delay_timer(m)]
          [] NN = 10 -> wait_for_key(m, X)
          [] NN = 21 -> set_delay_timer(m, Vx)
          [] NN = 24 -> set_sound_timer(m, Vx)
          [] NN = 30 -> [m EXCEPT !.idx = U16(m.idx + Vx)]
          [] NN = 41 -> LET m1 == [m EXCEPT !.idx = 5 * Vx]
                        IN  IF m1.idx < 80 THEN m1 ELSE assert_fail(m1)
          [] NN = 51 -> MemWrite(MemWrite(MemWrite(m, I, (Vx \div 100) % 10),
                                          I + 1, (Vx \div 10) % 10),
                                 I + 2, Vx % 10)
          [] NN = 85 -> StoreRegisters(m, I, X, 0)
          [] NN = 101 -> LoadRegisters(m, I, X, 0, nd)
          [] OTHER -> panic_opcode(m)

(***************************************************************************)
(* DXYN.  d is the state of the drawing loops: the emulator's state and    *)
(* the local screen_updated.                                               *)
(***************************************************************************)
\* how many times `while (sprite_bits != 0)` runs its body: once for each bit
\* up to the highest one set
RECURSIVE PassCount(_)
PassCount(sprite_bits) ==
    IF sprite_bits = 0 THEN 0 ELSE 1 + PassCount(sprite_bits \div 2)

\* the while loop over one row, after its first k passes; pass k (from 1)
\* finds sprite_bits shifted k - 1 times and j = 7 - (k - 1)
RECURSIVE DrawBits(_, _, _, _, _)
DrawBits(d, X, y, sprite_bits, k) ==
    IF k = 0 THEN d
    ELSE LET before == DrawBits(d, X, y, sprite_bits, k - 1)
             bits == sprite_bits \div Pow2(k - 1)
             j == 7 - (k - 1)
             x == (before.m.V[X] + j) % display_grid_width
             p == y * display_grid_width + x
             pixel_state == p \in before.m.gfx
             new_pixel_state == ((BitAnd(bits, 1) = 1) # pixel_state)
             m1 == IF pixel_state /\ ~new_pixel_state
                   THEN [before.m EXCEPT !.V[15] = 1] ELSE before.m
         IN  [m |-> [m1 EXCEPT !.gfx = IF new_pixel_state
                                       THEN @ \cup {p} ELSE @ \ {p}],
              screen_updated |->
                  before.screen_updated \/ (pixel_state # new_pixel_state)]

\* one pass of the loop over the sprite's rows
DrawRow(d, X, Y, i, nd) ==
    LET sprite_bits == MemRead(d.m, d.m.idx + i, nd)
        y == (d.m.V[Y] + i) % display_grid_height
        d1 == IF d.m.idx + i < memory_size_bytes THEN d
              ELSE [d EXCEPT !.m.status = Undefined]
    IN  DrawBits(d1, X, y, sprite_bits, PassCount(sprite_bits))

\* the loop over the sprite's rows, from row i on; it is not followed past a
\* row read outside the memory array
RECURSIVE DrawRows(_, _, _, _, _, _)
DrawRows(d, X, Y, N, i, nd) ==
    IF i >= N \/ d.m.status = Undefined THEN d
    ELSE DrawRows(DrawRow(d, X, Y, i, nd), X, Y, N, i + 1, nd)

draw_sprite(m, opcode, nd) ==
    LET X == ith_hex_digit(1, opcode)
        Y == ith_hex_digit(2, opcode)
        N == ith_hex_digit(3, opcode)
        d0 == [m |-> [m EXCEPT !.V[15] = 0], screen_updated |-> FALSE]
        d == DrawRows(d0, X, Y, N, 0, nd)
    IN  IF d.screen_updated THEN [d.m EXCEPT !.draw_flag = TRUE] ELSE d.m


(***************************************************************************)
(* emulate_cycle.                                                          *)
(***************************************************************************)
\* read_mem_byte_at asserting the address of the first byte only
FetchOk_firstbyte(m) == m.pc < memory_size_bytes

\* read_mem_byte_at: assert(addr < memory_size_bytes)
FetchOk(m) == m.pc < memory_size_bytes /\ U16(m.pc + 1) < memory_size_bytes

\* (read_mem_byte_at(pc) << 8) | read_mem_byte_at(pc + 1)
Fetch(m) ==
    BitOr(MemAt(m.memory, m.pc) * 256, MemAt(m.memory, U16(m.pc + 1)))

\* 2NNN pushing the address of the instruction after the call
call_subroutine_pushnext(m, NNN) ==
    LET m1 == IF m.sp < max_stack_depth
              THEN [m EXCEPT !.stack_trace[m.sp] = U16(m.pc + 2)]
              ELSE [m EXCEPT !.status = Undefined]
    IN  [m1 EXCEPT !.sp = U16(m.sp + 1), !.pc = NNN]

\* 2NNN: stack_trace[sp] = pc; sp++; pc = NNN.  There is no check of sp: with
\* sp >= 16 the store goes past the end of stack_trace.
call_subroutine(m, NNN) ==
    LET m1 == IF m.sp < max_stack_depth
              THEN [m EXCEPT !.stack_trace[m.sp] = m.pc]
              ELSE [m EXCEPT !.status = Undefined]
    IN  [m1 EXCEPT !.sp = U16(m.sp + 1), !.pc = NNN]

\* a skip taken when its condition does not hold
SkipIf_negated(m, cond) == IF cond THEN m ELSE [m EXCEPT !.pc = U16(m.pc + 2)]

SkipIf(m, cond) == IF cond THEN [m EXCEPT !.pc = U16(m.pc + 2)] ELSE m

\* EX9E and EXA1 without the assertions: input[Vx] is read wherever it is
emulate_0xEXNN_opcode_cycle_unasserted(m, opcode) ==
    LET Vx == m.V[ith_hex_digit(1, opcode)]
        NN == BitAnd(opcode, 255)
    IN  IF ~(Vx < user_input_key_count)
        THEN (IF NN \in { 158, 161 } THEN [m EXCEPT !.status = Undefined]
              ELSE panic_opcode(m))
        ELSE CASE NN = 158 -> SkipIf(m, m.input[Vx])
               [] NN = 161 -> SkipIf(m, ~m.input[Vx])
               [] OTHER -> panic_opcode(m)

emulate_0xEXNN_opcode_cycle(m, opcode) ==
    LET Vx == m.V[ith_hex_digit(1, opcode)]
        NN == BitAnd(opcode, 255)
    IN  IF ~(Vx < user_input_key_count) THEN assert_fail(m)
        ELSE CASE NN = 158 -> SkipIf(m, m.input[Vx])
               [] NN = 161 -> SkipIf(m, ~m.input[Vx])
               [] OTHER -> panic_opcode(m)

\* the switch with CXKK storing the random byte whatever KK is
Execute_rnd_unmasked(m, opcode, nd) ==
    LET X == ith_hex_digit(1, opcode)
        Y == ith_hex_digit(2, opcode)
        NNN == BitAnd(opcode, 4095)
        KK == BitAnd(opcode, 255)
        Vx == m.V[X]
        Vy == m.V[Y]
        hi == BitAnd(opcode, 61440) \div 4096
        Bump(n) == [m |-> n, bump_pc |-> TRUE]
        NoBump(n) == [m |-> n, bump_pc |-> FALSE]
    IN  CASE hi = 0 -> Bump(emulate_0x0NNN_opcode_cycle(m, opcode))
          [] hi = 1 -> NoBump([m EXCEPT !.pc = NNN])
          [] hi = 2 -> NoBump(call_subroutine(m, NNN))
          [] hi = 3 -> Bump(SkipIf(m, Vx = KK))
          [] hi = 4 -> Bump(SkipIf(m, Vx # KK))
          [] hi = 5 -> Bump(SkipIf(m, Vx = Vy))
          [] hi = 6 -> Bump([m EXCEPT !.V[X] = KK])
          [] hi = 7 -> Bump([m EXCEPT !.V[X] = U8(Vx + KK)])
          [] hi = 8 -> Bump(emulate_0x8XYN_opcode_cycle(m, opcode))
          [] hi = 9 -> Bump(SkipIf(m, Vx # Vy))
          [] hi = 10 -> Bump([m EXCEPT !.idx = NNN])
          [] hi = 11 -> NoBump([m EXCEPT !.pc = m.V[0] + NNN])
          [] hi = 12 -> Bump([m EXCEPT !.V[X] = BitAnd(nd, 255)])
          [] hi = 13 -> Bump(draw_sprite(m, opcode, nd))
          [] hi = 14 -> Bump(emulate_0xEXNN_opcode_cycle(m, opcode))
          [] OTHER -> Bump(emulate_0xFXNN_opcode_cycle(m, opcode, nd))

\* the switch of emulate_cycle: the state the opcode leaves, and bump_pc
Execute(m, opcode, nd) ==
    LET X == ith_hex_digit(1, opcode)
        Y == ith_hex_digit(2, opcode)
        NNN == BitAnd(opcode, 4095)
        KK == BitAnd(opcode, 255)
        Vx == m.V[X]
        Vy == m.V[Y]
        hi == BitAnd(opcode, 61440) \div 4096
        Bump(n) == [m |-> n, bump_pc |-> TRUE]
        NoBump(n) == [m |-> n, bump_pc |-> FALSE]
    IN  CASE hi = 0 -> Bump(emulate_0x0NNN_opcode_cycle(m, opcode))
          [] hi = 1 -> NoBump([m EXCEPT !.pc = NNN])
          [] hi = 2 -> NoBump(call_subroutine(m, NNN))
          [] hi = 3 -> Bump(SkipIf(m, Vx = KK))
          [] hi = 4 -> Bump(SkipIf(m, Vx # KK))
          [] hi = 5 -> Bump(SkipIf(m, Vx = Vy))
          [] hi = 6 -> Bump([m EXCEPT !.V[X] = KK])
          [] hi = 7 -> Bump([m EXCEPT !.V[X] = U8(Vx + KK)])
          [] hi = 8 -> Bump(emulate_0x8XYN_opcode_cycle(m, opcode))
          [] hi = 9 -> Bump(SkipIf(m, Vx # Vy))
          [] hi = 10 -> Bump([m EXCEPT !.idx = NNN])
          [] hi = 11 -> NoBump([m EXCEPT !.pc = m.V[0] + NNN])
          [] hi = 12 -> Bump([m EXCEPT !.V[X] = BitAnd(BitAnd(nd, 255), KK)])
          [] hi = 13 -> Bump(draw_sprite(m, opcode, nd))
          [] hi = 14 -> Bump(emulate_0xEXNN_opcode_cycle(m, opcode))
          [] OTHER -> Bump(emulate_0xFXNN_opcode_cycle(m, opcode, nd))

\* exit(1) and abort() end the process where they are called
Dead(m) == m.status \in {Exited, Aborted}

\* the end of emulate_cycle without the pc += 2
FinishCycle_unbumped(e) ==
    IF Dead(e.m) THEN e.m ELSE [e.m EXCEPT !.cycles_emulated = @ + 1]

\* the end of emulate_cycle with the timers updated in the cycle
FinishCycle_ticking(e) ==
    IF Dead(e.m) THEN e.m
    ELSE [e.m EXCEPT !.pc = IF e.bump_pc THEN U16(@ + 2) ELSE @,
                     !.delay_timer = IF @ > 0 THEN @ - 1 ELSE @,
                     !.sound_timer = IF @ > 0 THEN @ - 1 ELSE @,
                     !.beep_flag = (e.m.sound_timer > 1),
                     !.cycles_emulated = @ + 1]

\* if (bump_pc) pc += 2; cycles_emulated++;
FinishCycle(e) ==
    IF Dead(e.m) THEN e.m
    ELSE [e.m EXCEPT !.pc = IF e.bump_pc THEN U16(@ + 2) ELSE @,
                     !.cycles_emulated = @ + 1]

\* emulate_cycle without the check of register_awaiting_input
emulate_cycle_unchecked(m, nd) ==
    IF ~FetchOk(m) THEN assert_fail(m)
    ELSE FinishCycle(Execute(m, Fetch(m), nd))

emulate_cycle(m, nd) ==
    IF m.register_awaiting_input # None THEN m
    ELSE IF ~FetchOk(m) THEN assert_fail(m)
    ELSE FinishCycle(Execute(m, Fetch(m), nd))

(***************************************************************************)
(* update_user_input and decrement_timers.                                 *)
(***************************************************************************)
\* the keys whose state differs from the latch, releases included
NewlyPressed_changed(m, new_input) ==
    {k \in 0 .. user_input_key_count - 1 : m.input[k] # new_input[k]}

\* the keys that are down, whatever the latch holds
NewlyPressed_level(m, new_input) ==
    {k \in 0 .. user_input_key_count - 1 : new_input[k]}

\* the keys that go from not pressed to pressed
NewlyPressed(m, new_input) ==
    {k \in 0 .. user_input_key_count - 1 : ~m.input[k] /\ new_input[k]}

\* the loop without its break, as far as V[X] goes: every such key is stored
\* and the highest one stays
FirstPressed_unbroken(m, new_input) ==
    CHOOSE k \in NewlyPressed(m, new_input) :
        \A j \in NewlyPressed(m, new_input) : k >= j

\* the loop runs ikey upwards and breaks at the first such key
FirstPressed(m, new_input) ==
    CHOOSE k \in NewlyPressed(m, new_input) :
        \A j \in NewlyPressed(m, new_input) : k <= j

\* update_user_input storing the key without completing the instruction
update_user_input_core(m, new_input) ==
    LET m1 == IF m.register_awaiting_input # None
                 /\ NewlyPressed(m, new_input) # {}
              THEN [m EXCEPT !.V[m.register_awaiting_input] =
                                 FirstPressed(m, new_input),
                             !.register_awaiting_input = None]
              ELSE m
    IN  [m1 EXCEPT !.input = new_input]

update_user_input(m, new_input) ==
    LET m1 == IF m.register_awaiting_input # None
                 /\ NewlyPressed(m, new_input) # {}
              THEN [m EXCEPT !.V[m.register_awaiting_input] =
                                 FirstPressed(m, new_input),
                             !.register_awaiting_input = None,
                             !.pc = U16(m.pc + 2),
                             !.cycles_emulated = m.cycles_emulated + 1]
              ELSE m
    IN  [m1 EXCEPT !.input = new_input]

\* decrement_timers decrementing a timer that is 0, which wraps to 255
decrement_timers_wrapping(m) ==
    [m EXCEPT !.delay_timer = U8(@ - 1),
              !.sound_timer = U8(@ - 1),
              !.beep_flag = (U8(m.sound_timer - 1) # 0)]

decrement_timers(m) ==
    LET m1 == IF m.delay_timer > 0
              THEN [m EXCEPT !.delay_timer = @ - 1] ELSE m
    IN  IF m1.sound_timer > 0
        THEN LET m2 == [m1 EXCEPT !.sound_timer = @ - 1]
             IN  IF m2.sound_timer = 0
                 THEN IF m2.beep_flag THEN [m2 EXCEPT !.beep_flag = FALSE]
                      ELSE assert_fail(m2)
                 ELSE m2
        ELSE m1


(***************************************************************************)
(* The ROMs that are loaded.  A ROM is written as its sequence of 16-bit   *)
(* instruction words, stored big-endian from address 0x200.                *)
(***************************************************************************)
WordsToBytes(ws) ==
    [i \in 1 .. 2 * Len(ws) |->
        IF i % 2 = 1 THEN ws[(i + 1) \div 2] \div 256 ELSE ws[i \div 2] % 256]

\* F30A 6A15 7301 1206: wait for a key into V3, then count in V3
WaitKeyRom == << 62218, 27157, 29441, 4614 >>
\* 2200: a subroutine that calls itself
RecurseRom == << 8704 >>
\* 2202 2204 00EE: two nested calls, then the returns
NestedRom == << 8706, 8708, 238 >>
\* 7001 3011 2200 00EE: calls nested 16 deep, then 16 returns and one more
DeepRom == << 28673, 12305, 8704, 238 >>
\* 2204 1202 6B07 00EE: a call, a body of one instruction, the return
CallBodyRom == << 8708, 4610, 27399, 238 >>
\* A000 D005 D005 00E0 1200: draw the glyph 0 twice, clear, repeat
DrawRom == << 40960, 53253, 53253, 224, 4608 >>

\* the instruction word with the hexadecimal digits a b c d
Word(a, b, c, d) == a * 4096 + b * 256 + c * 16 + d

\* 6XKK
LdImm(X, KK) == Word(6, X, 0, 0) + KK

\* ANNN
LdIdx(NNN) == Word(10, 0, 0, 0) + NNN

\* 6Xaa 3Xkk / 4Xkk, 6Xaa 6Ybb 5XY0 / 9XY0 and 6Xaa EX9E / EXA1: a skip opcode
\* on registers that are equal or differ, and on a key number that is in the
\* latch or past its end
SkipRoms ==
    { << LdImm(X, a), Word(h, X, 0, 0) + KK >> :
        h \in { 3, 4 }, X \in { 0, 15 }, a \in { 0, 1 }, KK \in { 0, 1, 255 } }
    \cup { << LdImm(X, a), LdImm(Y, b), Word(h, X, Y, 0) >> :
             h \in { 5, 9 }, X \in { 0, 15 }, Y \in { 1, 15 },
             a \in { 0, 1 }, b \in { 0, 1 } }
    \cup { << LdImm(X, a), Word(14, X, 0, 0) + NN >> :
             X \in { 0, 15 }, a \in { 0, 1, 2, 16 }, NN \in { 158, 161 } }

\* 600A F015 F107 6103 F118 F207: set the delay timer to 10, read it, set
\* the sound timer to 3, read the delay timer again
TimerRom == << 24586, 61461, 61703, 24835, 61720, 61959 >>

\* A000 D005 6002 F018 F107 7101 8104 C101 F01E F129 F233 F155 F165 4002 E19E
\* 5010 9010 222A F30A B226 122C 00EE: a draw, then an instruction of every
\* other kind but 00E0
SurveyRom ==
    << 40960, 53253, 24578, 61464, 61703, 28929, 33028, 49409, 61470, 61737,
       62003, 61781, 61797, 16386, 57758, 20496, 36880, 8746, 62218, 45606,
       4652, 238 >>

Programs ==
    { WaitKeyRom, RecurseRom, NestedRom, DeepRom, CallBodyRom, DrawRom,
      TimerRom, SurveyRom }
    \cup SkipRoms

\* 00E0 00EE 1200 2200 6A15 F10A
Alphabet == { 224, 238, 4608, 8704, 27157, 61706 }

Roms == Programs \cup UNION { [1 .. n -> Alphabet] : n \in 1 .. MaxRomLen }

\* the key arrays glfw hands over: any of the keys 0 .. NumKeys-1 pressed
InputArrays ==
    { [k \in 0 .. user_input_key_count - 1 |-> k \in S] :
        S \in SUBSET (0 .. NumKeys - 1) }

\* the bytes nd stands for: the random byte of CXKK (rand() & 255), or the
\* byte a load past the end of memory finds
NdChoices(m) ==
    IF m.register_awaiting_input # None \/ ~FetchOk(m) THEN {0}
    ELSE LET opcode == Fetch(m)
             hi == opcode \div 4096
             X == ith_hex_digit(1, opcode)
             N == ith_hex_digit(3, opcode)
         IN  IF \/ hi = 12
                \/ hi = 13 /\ N > 0 /\ m.idx + N - 1 >= memory_size_bytes
                \/ hi = 15 /\ opcode % 256 = 101
                          /\ m.idx + X >= memory_size_bytes
             THEN Byte ELSE {0}

(***************************************************************************)
(* The history variable last: which entry point ran, what it was given and *)
(* the values it found, and the entry point that ran before it.            *)
(***************************************************************************)
\* the ticks counted since the last FX15 are capped at MaxTicks
MaxTicks == 11

\* FX15
IsSetDelay(opcode) ==
    opcode # None /\ opcode \div 4096 = 15 /\ opcode % 256 = 21

Entry(op, opcode, new_input) ==
    [ op |-> op, opcode |-> opcode, new_input |-> new_input,
      pc |-> pc, sp |-> sp, cycles_emulated |-> cycles_emulated,
      register_awaiting_input |-> register_awaiting_input,
      V |-> V, input |-> input, gfx |-> gfx,
      prev_op |-> last.op, prev_opcode |-> last.opcode, prev_V |-> last.V,
      prev_gfx |-> last.gfx,
      \* the bytes of the ROM file that init loaded
      rom |-> last.rom,
      \* the value the last FX15 wrote and the calls of decrement_timers
      \* since, None before the first FX15
      delay_written |->
          IF op = "emulate_cycle" /\ IsSetDelay(opcode)
          THEN V[(opcode \div 256) % 16] ELSE last.delay_written,
      \* where the last FX0A was fetched and cycles_emulated before it, None
      \* before the first FX0A
      wait_pc |->
          IF op = "emulate_cycle" /\ opcode # None /\ IsWaitOpcode(opcode)
          THEN pc ELSE last.wait_pc,
      wait_cycles |->
          IF op = "emulate_cycle" /\ opcode # None /\ IsWaitOpcode(opcode)
          THEN cycles_emulated ELSE last.wait_cycles,
      ticks |->
          IF op = "emulate_cycle" /\ IsSetDelay(opcode) THEN 0
          ELSE IF op = "decrement_timers" /\ last.ticks # None
               THEN (IF last.ticks < MaxTicks THEN last.ticks + 1 ELSE MaxTicks)
               ELSE last.ticks ]

\* the opcode a call of emulate_cycle fetches, None when it fetches nothing
FetchedOpcode(m) ==
    IF m.register_awaiting_input # None \/ ~FetchOk(m) THEN None ELSE Fetch(m)

emuThreadVars == << epc, e_opcode, e_bump_pc, e_i, e_screen_updated, e_reg >>

renderThreadVars == << rpc, draw_requested, input_buffer, r_reg, buffer >>

timerVars == << timer_mutex, tpc, e_old_value >>

threadVars ==
    << input_mutex, gfx_mutex, emuThreadVars, renderThreadVars, timerVars >>

digitVars == << digit_opcode, digit_index, digit >>

\* the variables of what runs apart from the emulator and its threads
clockVars == << now, last_access_time, value, written, returned >>

runVars ==
    << shutdown_flag, emu_thread, audio_thread, timer_thread, render_thread,
       run_pc, beep_calls >>

otherVars == << digitVars, clockVars, runVars >>

vars == << emuVars, last, calls, threadVars, otherVars, frame >>

NoThread == "none"
EmuThread == "emu"
RenderThread == "render"
TimerThread == "timer"

\* the threads before run() has started them
\* the threads before they have run
ThreadsIdle ==
    /\ input_mutex = NoThread
    /\ gfx_mutex = NoThread
    /\ epc = "check"
    /\ e_opcode = None
    /\ e_bump_pc = TRUE
    /\ e_i = 0
    /\ e_screen_updated = FALSE
    /\ e_reg = 0
    /\ rpc = "wait_draw"
    /\ draw_requested = FALSE
    /\ input_buffer = [k \in 0 .. user_input_key_count - 1 |-> FALSE]
    /\ r_reg = 0
    /\ buffer = {}
    /\ timer_mutex = NoThread
    /\ tpc = "wait"
    /\ e_old_value = 0

DigitIdle == digit_opcode = 0 /\ digit_index = 0 /\ digit = None

\* Timer's member initializers, at time 0
ClockIdle ==
    /\ now = 0
    /\ last_access_time = 0
    /\ value = 0
    /\ written = [value |-> 0, at |-> 0]
    /\ returned = [called |-> FALSE, value |-> 0, at |-> 0]

\* run() has constructed the four threads and none has taken a step
RunIdle ==
    /\ shutdown_flag = FALSE
    /\ emu_thread = "loop"
    /\ audio_thread = "poll_start"
    /\ timer_thread = "loop"
    /\ render_thread = "loop"
    /\ run_pc = "poll"
    /\ beep_calls = << >>

OtherIdle == DigitIdle /\ ClockIdle /\ RunIdle

ThreadsInit == ThreadsIdle /\ OtherIdle

\* the entry of the first call of init: the bytes of its ROM file, and the
\* values of the zero-initialised statics that it found
InitEntry(file) ==
    [ op |-> "init", opcode |-> None, new_input |-> StaticInit.input,
      pc |-> 0, sp |-> 0, cycles_emulated |-> 0,
      register_awaiting_input |-> None,
      V |-> StaticInit.V, input |-> StaticInit.input, gfx |-> {},
      prev_op |-> "none", prev_opcode |-> None,
      prev_V |-> StaticInit.V, prev_gfx |-> {},
      rom |-> file, delay_written |-> None, wait_pc |-> None,
      wait_cycles |-> None, ticks |-> None ]

\* the emulator after init(rom_path) for a ROM file holding the bytes file
LoadedFile(file) ==
    \E m \in { init(StaticInit, file) } :
        /\ memory = m.memory
        /\ gfx = m.gfx
        /\ stack_trace = m.stack_trace
        /\ V = m.V
        /\ input = m.input
        /\ idx = m.idx
        /\ pc = m.pc
        /\ sp = m.sp
        /\ delay_timer = m.delay_timer
        /\ sound_timer = m.sound_timer
        /\ register_awaiting_input = m.register_awaiting_input
        /\ cycles_emulated = m.cycles_emulated
        /\ draw_flag = m.draw_flag
        /\ beep_flag = m.beep_flag
        /\ status = m.status
        /\ last = InitEntry(file)
        /\ calls = << >>
        /\ frame = m.gfx

\* the emulator after init(rom) for the ROM of the instruction words rom
Loaded(rom) == LoadedFile(WordsToBytes(rom))

Init == ThreadsInit /\ \E rom \in Roms : Loaded(rom)

\* a 2NNN adds its own address and the sp it found; a 00EE removes the newest
PendingCalls(opcode) ==
    IF opcode # None /\ opcode \div 4096 = 2
    THEN Append(calls, [site |-> pc, sp |-> sp])
    ELSE IF opcode = 238 /\ calls # << >>
    THEN SubSeq(calls, 1, Len(calls) - 1)
    ELSE calls

EmulateCycle ==
    /\ status = Running
    /\ cycles_emulated < MaxCycles
    /\ \E nd \in NdChoices(Cur) : Install(emulate_cycle(Cur, nd))
    /\ last' = Entry("emulate_cycle", FetchedOpcode(Cur), input)
    /\ calls' = PendingCalls(FetchedOpcode(Cur))
    /\ frame' = gfx'
    /\ UNCHANGED << threadVars, otherVars >>

UpdateUserInput ==
    /\ status = Running
    /\ \E new_input \in InputArrays :
          /\ Install(update_user_input(Cur, new_input))
          /\ last' = Entry("update_user_input", None, new_input)
    /\ UNCHANGED << calls, threadVars, otherVars, frame >>

DecrementTimers ==
    /\ status = Running
    /\ Install(decrement_timers(Cur))
    /\ last' = Entry("decrement_timers", None, input)
    /\ UNCHANGED << calls, threadVars, otherVars, frame >>

Next == EmulateCycle \/ UpdateUserInput \/ DecrementTimers

Spec == Init /\ [][Next]_vars


(***************************************************************************)
(* The threads of run().  The emulation thread calls emulate_cycle again   *)
(* and again; the render thread polls the keyboard, hands the key array to *)
(* update_user_input and copies the display when a draw was requested.     *)
(* A step is a mutex section or one access to a variable that no mutex     *)
(* guards; pc += 2 and cycles_emulated++ are a load followed by a store.   *)
(***************************************************************************)
\* the emulation thread stops calling emulate_cycle after MaxCyclesMT cycles
MaxCyclesMT == 6

\* 6001 F018 F015 6000 F018 F107: start a beep of one tick and the delay
\* timer, stop the beep, read the delay timer
BeepRom == << 24577, 61464, 61461, 24576, 61464, 61703 >>

RomsMT == { WaitKeyRom, DrawRom, BeepRom }

InitMT == ThreadsInit /\ \E rom \in RomsMT : Loaded(rom)

history == << last, calls >>

\* { lock_guard lock(input_mutex); if (register_awaiting_input) return; }
E_Check ==
    /\ status = Running
    /\ epc = "check"
    /\ cycles_emulated < MaxCyclesMT
    /\ input_mutex = NoThread
    /\ epc' = IF register_awaiting_input # None THEN "check" ELSE "fetch"
    /\ UNCHANGED << emuVars, history, otherVars, timerVars, input_mutex, gfx_mutex, e_opcode,
                    e_bump_pc, e_i, e_screen_updated, e_reg, renderThreadVars,
                    frame >>

\* FX07, FX15 and FX18: the cases that call read_delay_timer, set_delay_timer
\* and set_sound_timer, which take timer_mutex
IsTimerOpcode(op) == op \div 4096 = 15 /\ op % 256 \in { 7, 21, 24 }

\* where the switch of emulate_cycle takes the opcode
Route(op) ==
    IF op = 224 THEN "clear"
    ELSE IF op \div 4096 = 13 THEN "draw"
    ELSE IF IsWaitOpcode(op) THEN "wait_key"
    ELSE IF IsTimerOpcode(op) THEN "timer"
    ELSE "execute"

\* the fetch, bump_pc = true, and the switch
E_Fetch ==
    /\ status = Running
    /\ epc = "fetch"
    /\ IF FetchOk(Cur)
       THEN /\ e_opcode' = Fetch(Cur)
            /\ e_bump_pc' = TRUE
            /\ epc' = Route(Fetch(Cur))
            /\ UNCHANGED emuVars
       ELSE /\ Install(assert_fail(Cur))
            /\ UNCHANGED << e_opcode, e_bump_pc, epc >>
    /\ UNCHANGED << history, otherVars, timerVars, input_mutex, gfx_mutex, e_i, e_screen_updated,
                    e_reg, renderThreadVars, frame >>

\* an opcode that takes no mutex
E_Execute ==
    /\ status = Running
    /\ epc = "execute"
    /\ \E nd \in NdChoices(Cur) :
          LET e == Execute(Cur, e_opcode, nd)
          IN  /\ Install(e.m)
              /\ e_bump_pc' = e.bump_pc
    /\ epc' = "bump"
    /\ UNCHANGED << history, otherVars, timerVars, input_mutex, gfx_mutex, e_opcode, e_i,
                    e_screen_updated, e_reg, renderThreadVars, frame >>

\* FX0A: { lock_guard lock(input_mutex); register_awaiting_input = X; return; }
E_WaitKey ==
    /\ status = Running
    /\ epc = "wait_key"
    /\ input_mutex = NoThread
    /\ Install(wait_for_key(Cur, ith_hex_digit(1, e_opcode)))
    /\ epc' = "bump"
    /\ UNCHANGED << history, otherVars, timerVars, input_mutex, gfx_mutex, e_opcode, e_bump_pc, e_i,
                    e_screen_updated, e_reg, renderThreadVars, frame >>

\* clear_screen: lock_guard lock(gfx_mutex)
E_ClearLock ==
    /\ status = Running
    /\ epc = "clear"
    /\ gfx_mutex = NoThread
    /\ gfx_mutex' = EmuThread
    /\ e_i' = 0
    /\ epc' = "clearing"
    /\ UNCHANGED << emuVars, history, otherVars, timerVars, input_mutex, e_opcode, e_bump_pc,
                    e_screen_updated, e_reg, renderThreadVars, frame >>

\* clear_screen: gfx[i] = false for the 64 pixels of one row of the display
E_ClearRow ==
    /\ status = Running
    /\ epc = "clearing"
    /\ e_i < display_grid_height
    /\ gfx' = {p \in gfx : p \div display_grid_width # e_i}
    /\ e_i' = e_i + 1
    /\ UNCHANGED << memory, stack_trace, V, input, idx, pc, sp, delay_timer,
                    sound_timer, register_awaiting_input, cycles_emulated,
                    draw_flag, beep_flag, status, history, otherVars, timerVars, input_mutex,
                    gfx_mutex, epc, e_opcode, e_bump_pc, e_screen_updated,
                    e_reg, renderThreadVars, frame >>

\* clear_screen: the end of the loop releases gfx_mutex
E_ClearUnlock ==
    /\ status = Running
    /\ epc = "clearing"
    /\ e_i >= display_grid_height
    /\ gfx_mutex' = NoThread
    /\ e_screen_updated' = TRUE
    /\ frame' = gfx
    /\ epc' = "set_draw"
    /\ UNCHANGED << emuVars, history, otherVars, timerVars, input_mutex, e_opcode, e_bump_pc, e_i,
                    e_reg, renderThreadVars >>

\* DXYN: Vf = 0; screen_updated = false; lock_guard lock(gfx_mutex)
E_DrawLock ==
    /\ status = Running
    /\ epc = "draw"
    /\ gfx_mutex = NoThread
    /\ gfx_mutex' = EmuThread
    /\ V' = [V EXCEPT ![15] = 0]
    /\ e_screen_updated' = FALSE
    /\ e_i' = 0
    /\ epc' = "drawing"
    /\ UNCHANGED << memory, gfx, stack_trace, input, idx, pc, sp, delay_timer,
                    sound_timer, register_awaiting_input, cycles_emulated,
                    draw_flag, beep_flag, status, history, otherVars, timerVars, input_mutex,
                    e_opcode, e_bump_pc, e_reg, renderThreadVars, frame >>

\* DXYN: one row of the sprite
E_DrawRow ==
    /\ status = Running
    /\ epc = "drawing"
    /\ e_i < ith_hex_digit(3, e_opcode)
    /\ \E nd \in (IF idx + e_i < memory_size_bytes THEN {0} ELSE Byte) :
          LET d == DrawRow([m |-> Cur, screen_updated |-> e_screen_updated],
                           ith_hex_digit(1, e_opcode),
                           ith_hex_digit(2, e_opcode), e_i, nd)
          IN  /\ Install(d.m)
              /\ e_screen_updated' = d.screen_updated
    /\ e_i' = e_i + 1
    /\ UNCHANGED << history, otherVars, timerVars, input_mutex, gfx_mutex, epc, e_opcode, e_bump_pc,
                    e_reg, renderThreadVars, frame >>

\* DXYN: the end of the loop releases gfx_mutex
E_DrawUnlock ==
    /\ status = Running
    /\ epc = "drawing"
    /\ e_i >= ith_hex_digit(3, e_opcode)
    /\ gfx_mutex' = NoThread
    /\ frame' = gfx
    /\ epc' = IF e_screen_updated THEN "set_draw" ELSE "bump"
    /\ UNCHANGED << emuVars, history, otherVars, timerVars, input_mutex, e_opcode, e_bump_pc, e_i,
                    e_screen_updated, e_reg, renderThreadVars >>

\* _draw_flag.set()
E_SetDraw ==
    /\ status = Running
    /\ epc = "set_draw"
    /\ draw_flag' = TRUE
    /\ epc' = "bump"
    /\ UNCHANGED << memory, gfx, stack_trace, V, input, idx, pc, sp,
                    delay_timer, sound_timer, register_awaiting_input,
                    cycles_emulated, beep_flag, status, history, otherVars, timerVars, input_mutex,
                    gfx_mutex, e_opcode, e_bump_pc, e_i, e_screen_updated,
                    e_reg, renderThreadVars, frame >>

\* if (bump_pc) pc += 2: the load
E_BumpLoad ==
    /\ status = Running
    /\ epc = "bump"
    /\ IF e_bump_pc
       THEN e_reg' = pc /\ epc' = "bump_store"
       ELSE e_reg' = e_reg /\ epc' = "count"
    /\ UNCHANGED << emuVars, history, otherVars, timerVars, input_mutex, gfx_mutex, e_opcode,
                    e_bump_pc, e_i, e_screen_updated, renderThreadVars, frame >>

\* pc += 2: the store
E_BumpStore ==
    /\ status = Running
    /\ epc = "bump_store"
    /\ pc' = U16(e_reg + 2)
    /\ epc' = "count"
    /\ UNCHANGED << memory, gfx, stack_trace, V, input, idx, sp, delay_timer,
                    sound_timer, register_awaiting_input, cycles_emulated,
                    draw_flag, beep_flag, status, history, otherVars, timerVars, input_mutex,
                    gfx_mutex, e_opcode, e_bump_pc, e_i, e_screen_updated,
                    e_reg, renderThreadVars, frame >>

\* cycles_emulated++: the load
E_CountLoad ==
    /\ status = Running
    /\ epc = "count"
    /\ e_reg' = cycles_emulated
    /\ epc' = "count_store"
    /\ UNCHANGED << emuVars, history, otherVars, timerVars, input_mutex, gfx_mutex, e_opcode,
                    e_bump_pc, e_i, e_screen_updated, renderThreadVars, frame >>

\* cycles_emulated++: the store, and the return to emu_thread_func's loop
E_CountStore ==
    /\ status = Running
    /\ epc = "count_store"
    /\ cycles_emulated' = e_reg + 1
    /\ epc' = "check"
    /\ UNCHANGED << memory, gfx, stack_trace, V, input, idx, pc, sp,
                    delay_timer, sound_timer, register_awaiting_input,
                    draw_flag, beep_flag, status, history, otherVars, timerVars, input_mutex,
                    gfx_mutex, e_opcode, e_bump_pc, e_i, e_screen_updated,
                    e_reg, renderThreadVars, frame >>

\* read_delay_timer, set_delay_timer, set_sound_timer: lock_guard lock(timer_mutex)
E_TimerLock ==
    /\ status = Running
    /\ epc = "timer"
    /\ timer_mutex = NoThread
    /\ timer_mutex' = EmuThread
    /\ epc' = "timer_access"
    /\ UNCHANGED << emuVars, history, otherVars, tpc, e_old_value, input_mutex, gfx_mutex,
                    e_opcode, e_bump_pc, e_i, e_screen_updated, e_reg,
                    renderThreadVars, frame >>

\* FX07: Vx = delay_timer;  FX15: delay_timer = Vx;
\* FX18: e_old_value = sound_timer; sound_timer = new_value
E_TimerAccess ==
    /\ status = Running
    /\ epc = "timer_access"
    /\ LET X == ith_hex_digit(1, e_opcode)
           NN == BitAnd(e_opcode, 255)
       IN  CASE NN = 7 ->
                  /\ Install([Cur EXCEPT !.V[X] = read_delay_timer(Cur)])
                  /\ epc' = "timer_unlock"
                  /\ UNCHANGED e_old_value
             [] NN = 21 ->
                  /\ Install(set_delay_timer(Cur, V[X]))
                  /\ epc' = "timer_unlock"
                  /\ UNCHANGED e_old_value
             [] OTHER ->
                  /\ Install([Cur EXCEPT !.sound_timer = V[X]])
                  /\ e_old_value' = sound_timer
                  /\ epc' = "timer_flag"
    /\ UNCHANGED << history, otherVars, timer_mutex, tpc, input_mutex, gfx_mutex,
                    e_opcode, e_bump_pc, e_i, e_screen_updated, e_reg,
                    renderThreadVars, frame >>

\* set_sound_timer: the beep flag is set when the timer leaves 0 and unset when
\* it is put back to 0
E_TimerFlag ==
    /\ status = Running
    /\ epc = "timer_flag"
    /\ LET new_value == V[ith_hex_digit(1, e_opcode)]
       IN  beep_flag' = IF new_value > 0 /\ e_old_value = 0 THEN TRUE
                        ELSE IF new_value = 0 /\ e_old_value > 0 THEN FALSE
                        ELSE beep_flag
    /\ epc' = "timer_unlock"
    /\ UNCHANGED << memory, gfx, stack_trace, V, input, idx, pc, sp,
                    delay_timer, sound_timer, register_awaiting_input,
                    cycles_emulated, draw_flag, status, history, otherVars, timerVars,
                    input_mutex, gfx_mutex, e_opcode, e_bump_pc, e_i,
                    e_screen_updated, e_reg, renderThreadVars, frame >>

\* the end of the function releases timer_mutex
E_TimerUnlock ==
    /\ status = Running
    /\ epc = "timer_unlock"
    /\ timer_mutex' = NoThread
    /\ epc' = "bump"
    /\ UNCHANGED << emuVars, history, otherVars, tpc, e_old_value, input_mutex, gfx_mutex,
                    e_opcode, e_bump_pc, e_i, e_screen_updated, e_reg,
                    renderThreadVars, frame >>

EmuThreadStep ==
    \/ E_Check \/ E_Fetch \/ E_Execute \/ E_WaitKey
    \/ E_TimerLock \/ E_TimerAccess \/ E_TimerFlag \/ E_TimerUnlock
    \/ E_ClearLock \/ E_ClearRow \/ E_ClearUnlock
    \/ E_DrawLock \/ E_DrawRow \/ E_DrawUnlock \/ E_SetDraw
    \/ E_BumpLoad \/ E_BumpStore \/ E_CountLoad \/ E_CountStore

\* draw_requested = draw_flag().wait_for(true, input_polling_delay)
R_WaitDraw ==
    /\ status = Running
    /\ rpc = "wait_draw"
    /\ draw_requested' = draw_flag
    /\ rpc' = "poll"
    /\ UNCHANGED << emuVars, history, otherVars, timerVars, input_mutex, gfx_mutex, emuThreadVars,
                    input_buffer, r_reg, buffer, frame >>

\* glfwPollEvents(): key_callback writes the key events into input_buffer
R_Poll ==
    /\ status = Running
    /\ rpc = "poll"
    /\ \E keys \in InputArrays : input_buffer' = keys
    /\ rpc' = "update"
    /\ UNCHANGED << emuVars, history, otherVars, timerVars, input_mutex, gfx_mutex, emuThreadVars,
                    draw_requested, r_reg, buffer, frame >>

\* update_user_input: lock_guard lock(input_mutex), and the search for a key
\* going from not pressed to pressed
R_UpdateLock ==
    /\ status = Running
    /\ rpc = "update"
    /\ input_mutex = NoThread
    /\ input_mutex' = RenderThread
    /\ rpc' = IF register_awaiting_input # None
                 /\ NewlyPressed(Cur, input_buffer) # {}
              THEN "resolve" ELSE "latch"
    /\ UNCHANGED << emuVars, history, otherVars, timerVars, gfx_mutex, emuThreadVars,
                    draw_requested, input_buffer, r_reg, buffer, frame >>

\* V[X] = ikey; register_awaiting_input = {};
R_Resolve ==
    /\ status = Running
    /\ rpc = "resolve"
    /\ V' = [V EXCEPT ![register_awaiting_input] =
                          FirstPressed(Cur, input_buffer)]
    /\ register_awaiting_input' = None
    /\ rpc' = "resolve_pc"
    /\ UNCHANGED << memory, gfx, stack_trace, input, idx, pc, sp, delay_timer,
                    sound_timer, cycles_emulated, draw_flag, beep_flag, status,
                    history, otherVars, timerVars, input_mutex, gfx_mutex, emuThreadVars,
                    draw_requested, input_buffer, r_reg, buffer, frame >>

\* pc += 2: the load
R_ResolvePcLoad ==
    /\ status = Running
    /\ rpc = "resolve_pc"
    /\ r_reg' = pc
    /\ rpc' = "resolve_pc_store"
    /\ UNCHANGED << emuVars, history, otherVars, timerVars, input_mutex, gfx_mutex, emuThreadVars,
                    draw_requested, input_buffer, buffer, frame >>

\* pc += 2: the store
R_ResolvePcStore ==
    /\ status = Running
    /\ rpc = "resolve_pc_store"
    /\ pc' = U16(r_reg + 2)
    /\ rpc' = "resolve_count"
    /\ UNCHANGED << memory, gfx, stack_trace, V, input, idx, sp, delay_timer,
                    sound_timer, register_awaiting_input, cycles_emulated,
                    draw_flag, beep_flag, status, history, otherVars, timerVars, input_mutex,
                    gfx_mutex, emuThreadVars, draw_requested, input_buffer,
                    r_reg, buffer, frame >>

\* cycles_emulated++: the load
R_ResolveCountLoad ==
    /\ status = Running
    /\ rpc = "resolve_count"
    /\ r_reg' = cycles_emulated
    /\ rpc' = "resolve_count_store"
    /\ UNCHANGED << emuVars, history, otherVars, timerVars, input_mutex, gfx_mutex, emuThreadVars,
                    draw_requested, input_buffer, buffer, frame >>

\* cycles_emulated++: the store; break
R_ResolveCountStore ==
    /\ status = Running
    /\ rpc = "resolve_count_store"
    /\ cycles_emulated' = r_reg + 1
    /\ rpc' = "latch"
    /\ UNCHANGED << memory, gfx, stack_trace, V, input, idx, pc, sp,
                    delay_timer, sound_timer, register_awaiting_input,
                    draw_flag, beep_flag, status, history, otherVars, timerVars, input_mutex,
                    gfx_mutex, emuThreadVars, draw_requested, input_buffer,
                    r_reg, buffer, frame >>

\* input[ikey] = new_input[ikey] for every key; the return releases input_mutex
R_Latch ==
    /\ status = Running
    /\ rpc = "latch"
    /\ input' = input_buffer
    /\ input_mutex' = NoThread
    /\ rpc' = IF draw_requested THEN "copy" ELSE "wait_draw"
    /\ UNCHANGED << memory, gfx, stack_trace, V, idx, pc, sp, delay_timer,
                    sound_timer, register_awaiting_input, cycles_emulated,
                    draw_flag, beep_flag, status, history, otherVars, timerVars, gfx_mutex,
                    emuThreadVars, draw_requested, input_buffer, r_reg, buffer,
                    frame >>

\* a copy that takes gfx_mutex without looking at it
copy_screen_state_unlocked == TRUE

\* copy_screen_state: lock_guard lock(gfx_mutex) waits until no thread holds it
copy_screen_state_lock == gfx_mutex = NoThread

\* copy_screen_state: the memcpy under gfx_mutex
R_Copy ==
    /\ status = Running
    /\ rpc = "copy"
    /\ copy_screen_state_lock
    /\ buffer' = gfx
    /\ rpc' = "unset"
    /\ UNCHANGED << emuVars, history, otherVars, timerVars, input_mutex, gfx_mutex, emuThreadVars,
                    draw_requested, input_buffer, r_reg, frame >>

\* draw_flag().unset()
R_Unset ==
    /\ status = Running
    /\ rpc = "unset"
    /\ draw_flag' = FALSE
    /\ rpc' = "wait_draw"
    /\ UNCHANGED << memory, gfx, stack_trace, V, input, idx, pc, sp,
                    delay_timer, sound_timer, register_awaiting_input,
                    cycles_emulated, beep_flag, status, history, otherVars, timerVars, input_mutex,
                    gfx_mutex, emuThreadVars, draw_requested, input_buffer,
                    r_reg, buffer, frame >>

RenderThreadStep ==
    \/ R_WaitDraw \/ R_Poll \/ R_UpdateLock \/ R_Resolve
    \/ R_ResolvePcLoad \/ R_ResolvePcStore
    \/ R_ResolveCountLoad \/ R_ResolveCountStore
    \/ R_Latch \/ R_Copy \/ R_Unset

NextMT == EmuThreadStep \/ RenderThreadStep

SpecMT == InitMT /\ [][NextMT]_vars

(***************************************************************************)
(* Loading.  SpecLoad starts before init, with the statics zero, and calls *)
(* init for a ROM file at any time, also after the emulator has run and    *)
(* left values everywhere: terminate() and a later init() reset it again.  *)
(***************************************************************************)
\* 6003 F015 F018 A000 D005 A300 F055 2210 F10A: values in V0, the timers,
\* the display, index, the memory, the stack and the awaited register
DirtyRom == << 24579, 61461, 61464, 40960, 53253, 41728, 61525, 8720, 61706 >>

\* the ROM files that hold the program above or a prefix of it: no byte, one
\* byte, the whole program
SmallFiles ==
    { SubSeq(WordsToBytes(DirtyRom), 1, n) : n \in { 0, 1, 2 * Len(DirtyRom) } }

\* the ROM files around the largest size that fits; their bytes are 1 .. 7,
\* which make no instruction (0NNN is neither 00E0 nor 00EE)
LargeFiles ==
    { [i \in 1 .. n |-> 1 + (i % 7)] :
        n \in { allowed_rom_memory - 1, allowed_rom_memory,
                allowed_rom_memory + 1, allowed_rom_memory + 2 } }

\* the files init is called for: any file before a cycle has run, a small
\* one afterwards
Files ==
    SmallFiles
    \cup (IF last.op = "none" \/ (last.op = "init" /\ last.cycles_emulated = 0)
          THEN LargeFiles ELSE {})

\* the module before init
\* the statics of chip8::emulator before init has run
EmulatorStatic ==
    /\ memory = StaticInit.memory
    /\ gfx = StaticInit.gfx
    /\ stack_trace = StaticInit.stack_trace
    /\ V = StaticInit.V
    /\ input = StaticInit.input
    /\ idx = StaticInit.idx
    /\ pc = StaticInit.pc
    /\ sp = StaticInit.sp
    /\ delay_timer = StaticInit.delay_timer
    /\ sound_timer = StaticInit.sound_timer
    /\ register_awaiting_input = StaticInit.register_awaiting_input
    /\ cycles_emulated = StaticInit.cycles_emulated
    /\ draw_flag = StaticInit.draw_flag
    /\ beep_flag = StaticInit.beep_flag
    /\ status = StaticInit.status
    /\ last = [InitEntry(<< >>) EXCEPT !.op = "none"]
    /\ calls = << >>
    /\ frame = {}

InitLoad == ThreadsInit /\ EmulatorStatic

\* init(rom_path)
Load ==
    /\ status = Running
    /\ \E file \in Files :
          /\ Install(init(Cur, file))
          /\ last' = [Entry("init", None, input) EXCEPT
                         !.rom = file, !.delay_written = None,
                         !.wait_pc = None, !.wait_cycles = None,
                         !.ticks = None]
    /\ calls' = << >>
    /\ frame' = gfx'
    /\ UNCHANGED << threadVars, otherVars >>

\* the entry points that run() calls once init has returned
Run ==
    /\ last.op # "none"
    /\ EmulateCycle \/ UpdateUserInput \/ DecrementTimers

NextLoad == Load \/ Run

SpecLoad == InitLoad /\ [][NextLoad]_vars

(***************************************************************************)
(* The timer thread: timer_thread_func calls decrement_timers 60 times a   *)
(* second.  A step is one statement of decrement_timers.                   *)
(***************************************************************************)
\* a decrement_timers that takes timer_mutex without looking at it
decrement_timers_unlocked == TRUE

\* decrement_timers: lock_guard lock(timer_mutex) waits until no thread holds it
decrement_timers_lock == timer_mutex = NoThread

\* timer_cycle.wait_until_ready(); then decrement_timers takes timer_mutex
T_Lock ==
    /\ status = Running
    /\ tpc = "wait"
    /\ decrement_timers_lock
    /\ timer_mutex' = TimerThread
    /\ tpc' = "delay"
    /\ UNCHANGED << emuVars, history, otherVars, e_old_value, input_mutex, gfx_mutex,
                    emuThreadVars, renderThreadVars, frame >>

\* if (delay_timer > 0) delay_timer--;
T_Delay ==
    /\ status = Running
    /\ tpc = "delay"
    /\ delay_timer' = IF delay_timer > 0 THEN delay_timer - 1 ELSE delay_timer
    /\ tpc' = "sound"
    /\ UNCHANGED << memory, gfx, stack_trace, V, input, idx, pc, sp,
                    sound_timer, register_awaiting_input, cycles_emulated,
                    draw_flag, beep_flag, status, history, otherVars, timer_mutex,
                    e_old_value, input_mutex, gfx_mutex, emuThreadVars,
                    renderThreadVars, frame >>

\* if (sound_timer > 0) { sound_timer--; if (sound_timer == 0) ... }
T_Sound ==
    /\ status = Running
    /\ tpc = "sound"
    /\ sound_timer' = IF sound_timer > 0 THEN sound_timer - 1 ELSE sound_timer
    /\ tpc' = IF sound_timer = 1 THEN "flag" ELSE "unlock"
    /\ UNCHANGED << memory, gfx, stack_trace, V, input, idx, pc, sp,
                    delay_timer, register_awaiting_input, cycles_emulated,
                    draw_flag, beep_flag, status, history, otherVars, timer_mutex,
                    e_old_value, input_mutex, gfx_mutex, emuThreadVars,
                    renderThreadVars, frame >>

\* assert(_beep_flag.check()); _beep_flag.unset();
T_Flag ==
    /\ status = Running
    /\ tpc = "flag"
    /\ IF beep_flag
       THEN beep_flag' = FALSE /\ UNCHANGED status
       ELSE status' = Aborted /\ UNCHANGED beep_flag
    /\ tpc' = "unlock"
    /\ UNCHANGED << memory, gfx, stack_trace, V, input, idx, pc, sp,
                    delay_timer, sound_timer, register_awaiting_input,
                    cycles_emulated, draw_flag, history, otherVars, timer_mutex,
                    e_old_value, input_mutex, gfx_mutex, emuThreadVars,
                    renderThreadVars, frame >>

\* the end of decrement_timers releases timer_mutex
T_Unlock ==
    /\ status = Running
    /\ tpc = "unlock"
    /\ timer_mutex' = NoThread
    /\ tpc' = "wait"
    /\ UNCHANGED << emuVars, history, otherVars, e_old_value, input_mutex, gfx_mutex,
                    emuThreadVars, renderThreadVars, frame >>

TimerThreadStep == T_Lock \/ T_Delay \/ T_Sound \/ T_Flag \/ T_Unlock

\* 6002 F018 F107 D001 00E0 F30A: start a beep of two ticks, then read the
\* delay timer, draw, clear and wait for a key
BeepDrawRom == << 24578, 61464, 61703, 53249, 224, 62218 >>

RomsTimerMT == { BeepRom, BeepDrawRom }

InitTimerMT == ThreadsInit /\ \E rom \in RomsTimerMT : Loaded(rom)

NextTimerMT == EmuThreadStep \/ RenderThreadStep \/ TimerThreadStep

SpecTimerMT == InitTimerMT /\ [][NextTimerMT]_vars

(***************************************************************************)
(* Single instructions.  SpecInstr loads a ROM that sets the registers an  *)
(* instruction reads (6XKK, ANNN) and then holds that instruction, and     *)
(* calls emulate_cycle until the process ends: the memory after the ROM is *)
(* zero, and 0000 is no instruction.                                       *)
(***************************************************************************)
\* the register values tried: the ends of the range, the sign bit, a carry
Operands == { 0, 1, 2, 127, 128, 255 }

\* the register numbers tried: V0, V1 and the flag register
Regs == { 0, 1, 15 }

\* the addresses tried at the end of the memory
EdgeAddrs == { 4093, 4094, 4095 }

\* 6Xaa 6Ybb 8XYN
AluRoms ==
    { << LdImm(X, a), LdImm(Y, b), Word(8, X, Y, N) >> :
        X \in Regs, Y \in Regs, a \in Operands, b \in Operands, N \in 0 .. 15 }

\* 6Fvv 6Xkk 7Xkk
AddImmRoms ==
    { << LdImm(15, vf), LdImm(X, k1), Word(7, X, 0, 0) + k2 >> :
        vf \in { 0, 1 }, X \in Regs, k1 \in Operands, k2 \in Operands }

\* 6000 61E0 AFFE F155 1FFE: write 00E0 into the last two bytes of the memory
\* and jump to it, so that the next fetch is at 4096
RunOffRom == << LdImm(0, 0), LdImm(1, 224), LdIdx(4094), Word(15, 1, 5, 5),
                Word(1, 15, 15, 14) >>

\* 60vv BNNN and 1NNN to the end of the memory
JumpRoms ==
    { << LdImm(0, v), Word(11, 0, 0, 0) + NNN >> :
        v \in { 0, 1, 255 }, NNN \in EdgeAddrs }
    \cup { << Word(1, 0, 0, 0) + NNN >> : NNN \in EdgeAddrs }
    \cup { RunOffRom }

\* ANNN 6Xvv FX33 / FX55 / FX65, ANNN D00N, and AFFF 60FF F01E F033
IndexRoms ==
    { << LdIdx(NNN), LdImm(X, v), Word(15, X, 0, 0) + NN >> :
        NNN \in EdgeAddrs \cup { 768, 4092 }, X \in { 0, 1, 2 },
        v \in { 0, 7, 255 }, NN \in { 51, 85, 101 } }
    \cup { << LdIdx(NNN), Word(13, 0, 0, N) >> :
             NNN \in EdgeAddrs \cup { 0 }, N \in 0 .. 2 }
    \cup { << LdIdx(4095), LdImm(0, 255), Word(15, 0, 1, 14),
              Word(15, 0, 3, 3) >> }

\* 0000 00E1 0123 5011 500F 9001 900F E000 E09F F000 F034 F0FF
UndefinedWords ==
    { 0, Word(0, 0, 14, 1), Word(0, 1, 2, 3), Word(5, 0, 1, 1),
      Word(5, 0, 0, 15), Word(9, 0, 0, 1), Word(9, 0, 0, 15),
      Word(14, 0, 0, 0), Word(14, 0, 9, 15), Word(15, 0, 0, 0),
      Word(15, 0, 3, 4), Word(15, 0, 15, 15) }

\* one word of every family of the switch of emulate_cycle
SurveyWords ==
    { Word(0, 0, 14, 0), Word(0, 0, 14, 14), Word(1, 2, 0, 4),
      Word(2, 2, 0, 4), Word(3, 0, 0, 0), Word(3, 0, 0, 1), Word(4, 0, 0, 0),
      Word(4, 0, 0, 1), Word(5, 0, 1, 0), Word(6, 10, 1, 5),
      Word(7, 10, 0, 1), Word(9, 0, 1, 0), Word(10, 1, 2, 3),
      Word(11, 2, 0, 4), Word(12, 0, 0, 15), Word(13, 0, 0, 5),
      Word(14, 0, 9, 14), Word(14, 0, 10, 1), Word(15, 0, 0, 7),
      Word(15, 3, 0, 10), Word(15, 0, 1, 5), Word(15, 0, 1, 8),
      Word(15, 0, 1, 14), Word(15, 0, 2, 9), Word(15, 0, 3, 3),
      Word(15, 1, 5, 5), Word(15, 1, 6, 5) }

\* a ROM of one instruction, and the same after 6005 has set V0
SingleRoms ==
    { << w >> : w \in UndefinedWords \cup SurveyWords }
    \cup { << LdImm(0, 5), w >> : w \in UndefinedWords \cup SurveyWords }

\* 6Xaa 6Ybb ANNN DXYN DXYN: a sprite of N rows of the fontset drawn twice at
\* (a, b), inside the display and across its right and bottom edges
DrawRoms ==
    { << LdImm(X, a), LdImm(Y, b), LdIdx(NNN), Word(13, X, Y, N),
         Word(13, X, Y, N) >> :
        X \in { 0, 15 }, Y \in { 1, 15 }, a \in { 0, 5, 62 }, b \in { 0, 30 },
        NNN \in { 0, 77 }, N \in { 0, 1, 5, 15 } }

\* ANNN 6Xvv FX33: the decimal digits of every byte, in the middle of the
\* memory and at its end
BcdRoms ==
    { << LdIdx(NNN), LdImm(X, v), Word(15, X, 3, 3) >> :
        NNN \in { 768, 4093 }, X \in { 0, 15 }, v \in Byte }

\* 60aa 61bb 6Fcc ANNN FX55 FX65: registers stored and loaded back, up to
\* the last byte of the memory; A000 FX65: registers loaded from the fontset
RegisterRoms ==
    { << LdImm(0, a), LdImm(1, b), LdImm(15, c), LdIdx(NNN),
         Word(15, X, 5, 5), Word(15, X, 6, 5) >> :
        a \in { 0, 255 }, b \in { 7 }, c \in { 1, 128 },
        NNN \in { 768, 4080, 4094 }, X \in { 0, 1, 15 } }
    \cup { << LdIdx(0), Word(15, X, 6, 5) >> : X \in { 0, 2, 15 } }

\* 60dd F029 D125: the glyph of V0 drawn at (0, 0), for every digit and for
\* values that are no digit
FontRoms ==
    { << LdImm(0, d), Word(15, 0, 2, 9), Word(13, 1, 2, 5) >> :
        d \in (0 .. 15) \cup { 16, 51, 255 } }

\* 6Xff CXKK: a random byte masked into a register that holds 255
RndRoms ==
    { << LdImm(X, 255), Word(12, X, KK \div 16, KK % 16) >> :
        X \in { 0, 15 }, KK \in { 0, 1, 15, 60, 128, 170, 255 } }

\* 6Xvv EX9E and 6Xvv EXA1: the key number in Vx inside and outside 0 .. 15
KeyRoms ==
    { << LdImm(X, v), Word(14, X, n \div 16, n % 16) >> :
        X \in { 0, 15 }, v \in { 0, 1, 15, 16, 255 }, n \in { 158, 161 } }

InstrRoms ==
    AluRoms \cup AddImmRoms \cup JumpRoms \cup IndexRoms \cup SingleRoms
    \cup DrawRoms \cup BcdRoms \cup RegisterRoms \cup FontRoms
    \cup RndRoms \cup KeyRoms

InitInstr == ThreadsInit /\ \E rom \in InstrRoms : Loaded(rom)

NextInstr == EmulateCycle

SpecInstr == InitInstr /\ [][NextInstr]_vars

(***************************************************************************)
(* ith_hex_digit called on its own, for every opcode and every index.      *)
(***************************************************************************)
InitDigit ==
    /\ ThreadsIdle
    /\ EmulatorStatic
    /\ digit_opcode \in 0 .. 65535
    /\ digit_index = 0
    /\ digit = None
    /\ ClockIdle
    /\ RunIdle

\* ith_hex_digit<index>(opcode)
ExtractDigit ==
    /\ digit = None
    /\ \E index \in 0 .. 3 :
          /\ digit_index' = index
          /\ digit' = ith_hex_digit(index, digit_opcode)
    /\ UNCHANGED << emuVars, history, threadVars, digit_opcode, clockVars,
                    runVars, frame >>

NextDigit == ExtractDigit

SpecDigit == InitDigit /\ [][NextDigit]_vars

(***************************************************************************)
(* The Timer class: an 8-bit value that is brought up to date from the     *)
(* clock when it is read.  Time is counted in half periods, so that reads  *)
(* fall between the ticks as well as on them.                              *)
(***************************************************************************)
\* Timer::PERIOD, 1/60 s, in units of the clock
PERIOD == 2

\* how long the clock is followed, from the start and again from the end
\* of a step of 256 periods
MaxTime == 4

\* how far the clock goes between two calls: half a period, or 256 periods
ClockSteps == { 1, 256 * PERIOD }

\* the values written
TimerValues == { 0, 1, 3, 255 }

\* Timer::write
Timer_write(t, new_val, current_time) ==
    [t EXCEPT !.last_access_time = current_time, !.value = new_val]

\* Timer::read: the timer it leaves; read returns its value
Timer_read(t, current_time) ==
    LET nticks_d == (current_time - t.last_access_time) \div PERIOD
    IN  IF nticks_d > 255 THEN [t EXCEPT !.value = 0]
        ELSE IF nticks_d > 0
             THEN [t EXCEPT !.last_access_time = current_time,
                            !.value = IF @ > nticks_d THEN @ - nticks_d
                                      ELSE 0]
             ELSE t

\* the Timer object
TheTimer == [last_access_time |-> last_access_time, value |-> value]

InitClock ==
    ThreadsIdle /\ EmulatorStatic /\ DigitIdle /\ ClockIdle /\ RunIdle

ClockAdvance ==
    /\ \E d \in ClockSteps :
          /\ (now + d) % (256 * PERIOD) <= MaxTime
          /\ now + d < 2 * 256 * PERIOD
          /\ now' = now + d
    /\ UNCHANGED << emuVars, history, threadVars, digitVars, runVars,
                    last_access_time, value, written, returned, frame >>

TimerWrite ==
    /\ \E new_val \in TimerValues :
          LET t == Timer_write(TheTimer, new_val, now)
          IN  /\ last_access_time' = t.last_access_time
              /\ value' = t.value
              /\ written' = [value |-> new_val, at |-> now]
    /\ returned' = [called |-> FALSE, value |-> 0, at |-> 0]
    /\ UNCHANGED << emuVars, history, threadVars, digitVars, runVars, now,
                    frame >>

TimerRead ==
    /\ LET t == Timer_read(TheTimer, now)
       IN  /\ last_access_time' = t.last_access_time
           /\ value' = t.value
           /\ returned' = [called |-> TRUE, value |-> t.value, at |-> now]
    /\ UNCHANGED << emuVars, history, threadVars, digitVars, runVars, now,
                    written, frame >>

NextClock == ClockAdvance \/ TimerWrite \/ TimerRead

SpecClock == InitClock /\ [][NextClock]_vars

(***************************************************************************)
(* run(): the four threads and the thread that started them, from start   *)
(* to shutdown.  A step is one statement of a thread function; a call of   *)
(* emulate_cycle, decrement_timers or update_user_input is one step.       *)
(***************************************************************************)
\* sync_flag::wait, which returns only once the flag has the state
sync_flag_wait(flag, state) == [returns |-> flag = state, result |-> TRUE]

\* sync_flag::wait_for: cv.wait_for returns when notified or when wait_time
\* has passed, and the call returns flag == state
sync_flag_wait_for(flag, state) == [returns |-> TRUE, result |-> flag = state]

\* what the steps of the thread functions leave alone
outsideRun ==
    << history, input_mutex, gfx_mutex, emuThreadVars, rpc, r_reg, timerVars,
       digitVars, clockVars >>

\* 6001 F018 F018 F10A 6000 1206: a beep of one tick, another one if the
\* first is over, and a wait for a key again and again
BeepWaitRom == << 24577, 61464, 61464, 61706, 24576, 4614 >>

RomsRun == { BeepWaitRom }

\* the key arrays glfwPollEvents() leaves: key 0 up or down
RunInputs ==
    { [k \in 0 .. user_input_key_count - 1 |-> k = 0 /\ down] :
        down \in BOOLEAN }

InitRun == ThreadsInit /\ \E rom \in RomsRun : Loaded(rom)

\* the window is closed: shutdown_flag becomes true and stays true
RequestShutdown ==
    /\ status = Running
    /\ ~shutdown_flag
    /\ shutdown_flag' = TRUE
    /\ UNCHANGED << emuVars, outsideRun, draw_requested, input_buffer, buffer,
                    emu_thread, audio_thread, timer_thread, render_thread,
                    run_pc, beep_calls, frame >>

\* emu_thread_func: while (!shutdown_flag().load())
Emu_Loop ==
    /\ status = Running
    /\ emu_thread = "loop"
    /\ shutdown_flag \/ cycles_emulated < MaxCyclesMT
    /\ emu_thread' = IF shutdown_flag THEN "done" ELSE "cycle"
    /\ UNCHANGED << emuVars, outsideRun, draw_requested, input_buffer, buffer,
                    shutdown_flag, audio_thread, timer_thread, render_thread,
                    run_pc, beep_calls, frame >>

\* emulation_cycle.spin_until_ready(); emulate_cycle();
Emu_Cycle ==
    /\ status = Running
    /\ emu_thread = "cycle"
    /\ \E nd \in NdChoices(Cur) :
          \E m \in { emulate_cycle(Cur, nd) } : Install(m)
    /\ frame' = gfx'
    /\ emu_thread' = "loop"
    /\ UNCHANGED << outsideRun, draw_requested, input_buffer, buffer,
                    shutdown_flag, audio_thread, timer_thread, render_thread,
                    run_pc, beep_calls >>

\* timer_thread_func: while (!shutdown_flag().load())
Timer_Loop ==
    /\ status = Running
    /\ timer_thread = "loop"
    /\ timer_thread' = IF shutdown_flag THEN "done" ELSE "tick"
    /\ UNCHANGED << emuVars, outsideRun, draw_requested, input_buffer, buffer,
                    shutdown_flag, emu_thread, audio_thread, render_thread,
                    run_pc, beep_calls, frame >>

\* timer_cycle.wait_until_ready(); decrement_timers();
Timer_Tick ==
    /\ status = Running
    /\ timer_thread = "tick"
    /\ \E m \in { decrement_timers(Cur) } : Install(m)
    /\ timer_thread' = "loop"
    /\ UNCHANGED << outsideRun, draw_requested, input_buffer, buffer,
                    shutdown_flag, emu_thread, audio_thread, render_thread,
                    run_pc, beep_calls, frame >>

\* render_thread_func: if (shutdown_flag().load()) return;
Render_Loop ==
    /\ status = Running
    /\ render_thread = "loop"
    /\ render_thread' = IF shutdown_flag THEN "done" ELSE "wait"
    /\ UNCHANGED << emuVars, outsideRun, draw_requested, input_buffer, buffer,
                    shutdown_flag, emu_thread, audio_thread, timer_thread,
                    run_pc, beep_calls, frame >>

\* draw_requested = draw_flag().wait_for(true, input_polling_delay)
Render_Wait ==
    /\ status = Running
    /\ render_thread = "wait"
    /\ sync_flag_wait_for(draw_flag, TRUE).returns
    /\ draw_requested' = sync_flag_wait_for(draw_flag, TRUE).result
    /\ render_thread' = "poll"
    /\ UNCHANGED << emuVars, outsideRun, input_buffer, buffer,
                    shutdown_flag, emu_thread, audio_thread, timer_thread,
                    run_pc, beep_calls, frame >>

\* poll_user_input(): glfwPollEvents() and update_user_input(input_buffer)
Render_Poll ==
    /\ status = Running
    /\ render_thread = "poll"
    /\ \E keys \in RunInputs :
          /\ input_buffer' = keys
          /\ \E m \in { update_user_input(Cur, keys) } : Install(m)
    /\ render_thread' = IF draw_requested THEN "draw" ELSE "loop"
    /\ UNCHANGED << outsideRun, draw_requested, buffer,
                    shutdown_flag, emu_thread, audio_thread, timer_thread,
                    run_pc, beep_calls, frame >>

\* draw_cycle.wait_until_ready(); draw_screen();
Render_Draw ==
    /\ status = Running
    /\ render_thread = "draw"
    /\ buffer' = gfx
    /\ render_thread' = "unset"
    /\ UNCHANGED << emuVars, outsideRun, draw_requested, input_buffer,
                    shutdown_flag, emu_thread, audio_thread, timer_thread,
                    run_pc, beep_calls, frame >>

\* draw_flag().unset()
Render_Unset ==
    /\ status = Running
    /\ render_thread = "unset"
    /\ \E m \in { [Cur EXCEPT !.draw_flag = FALSE] } : Install(m)
    /\ render_thread' = "loop"
    /\ UNCHANGED << outsideRun, draw_requested, input_buffer, buffer,
                    shutdown_flag, emu_thread, audio_thread, timer_thread,
                    run_pc, beep_calls, frame >>

\* chip8_poll_beep_start: if (shutdown_flag().load()) return;
Audio_PollStart ==
    /\ status = Running
    /\ audio_thread = "poll_start"
    /\ audio_thread' = IF shutdown_flag THEN "done" ELSE "wait_start"
    /\ UNCHANGED << emuVars, outsideRun, draw_requested, input_buffer, buffer,
                    shutdown_flag, emu_thread, timer_thread, render_thread,
                    run_pc, beep_calls, frame >>

\* beep_flag().wait_for(true, shutdown_polling_delay), then start_beep() and
\* goto chip8_poll_beep_stop, or goto chip8_poll_beep_start
Audio_WaitStart ==
    /\ status = Running
    /\ audio_thread = "wait_start"
    /\ sync_flag_wait_for(beep_flag, TRUE).returns
    /\ IF sync_flag_wait_for(beep_flag, TRUE).result
       THEN /\ beep_calls' = Append(beep_calls, "start_beep")
            /\ audio_thread' = "poll_stop"
       ELSE /\ beep_calls' = beep_calls
            /\ audio_thread' = "poll_start"
    /\ UNCHANGED << emuVars, outsideRun, draw_requested, input_buffer, buffer,
                    shutdown_flag, emu_thread, timer_thread, render_thread,
                    run_pc, frame >>

\* chip8_poll_beep_stop with the return before stop_beep()
Audio_PollStop_silent ==
    /\ status = Running
    /\ audio_thread = "poll_stop"
    /\ audio_thread' = IF shutdown_flag THEN "done" ELSE "wait_stop"
    /\ UNCHANGED << emuVars, outsideRun, draw_requested, input_buffer, buffer,
                    shutdown_flag, emu_thread, timer_thread, render_thread,
                    run_pc, beep_calls, frame >>

\* chip8_poll_beep_stop: if (shutdown_flag().load()) { stop_beep(); return; }
Audio_PollStop ==
    /\ status = Running
    /\ audio_thread = "poll_stop"
    /\ IF shutdown_flag
       THEN /\ beep_calls' = Append(beep_calls, "stop_beep")
            /\ audio_thread' = "done"
       ELSE /\ beep_calls' = beep_calls
            /\ audio_thread' = "wait_stop"
    /\ UNCHANGED << emuVars, outsideRun, draw_requested, input_buffer, buffer,
                    shutdown_flag, emu_thread, timer_thread, render_thread,
                    run_pc, frame >>

\* beep_flag().wait_for(false, shutdown_polling_delay), then stop_beep() and
\* goto chip8_poll_beep_start, or goto chip8_poll_beep_stop
Audio_WaitStop ==
    /\ status = Running
    /\ audio_thread = "wait_stop"
    /\ sync_flag_wait_for(beep_flag, FALSE).returns
    /\ IF sync_flag_wait_for(beep_flag, FALSE).result
       THEN /\ beep_calls' = Append(beep_calls, "stop_beep")
            /\ audio_thread' = "poll_start"
       ELSE /\ beep_calls' = beep_calls
            /\ audio_thread' = "poll_stop"
    /\ UNCHANGED << emuVars, outsideRun, draw_requested, input_buffer, buffer,
                    shutdown_flag, emu_thread, timer_thread, render_thread,
                    run_pc, frame >>

\* run(): sleep_for(shutdown_polling_delay); if (shutdown_flag().load()) break;
Run_Poll ==
    /\ status = Running
    /\ run_pc = "poll"
    /\ shutdown_flag
    /\ run_pc' = "join_emu"
    /\ UNCHANGED << emuVars, outsideRun, draw_requested, input_buffer, buffer,
                    shutdown_flag, emu_thread, audio_thread, timer_thread,
                    render_thread, beep_calls, frame >>

\* emu_thread.join(); audio_thread.join(); timer_thread.join();
\* render_thread.join(); each returns once its thread has returned
Run_Join ==
    /\ status = Running
    /\ \/ run_pc = "join_emu" /\ emu_thread = "done"
          /\ run_pc' = "join_audio"
       \/ run_pc = "join_audio" /\ audio_thread = "done"
          /\ run_pc' = "join_timer"
       \/ run_pc = "join_timer" /\ timer_thread = "done"
          /\ run_pc' = "join_render"
       \/ run_pc = "join_render" /\ render_thread = "done"
          /\ run_pc' = "returned"
    /\ UNCHANGED << emuVars, outsideRun, draw_requested, input_buffer, buffer,
                    shutdown_flag, emu_thread, audio_thread, timer_thread,
                    render_thread, beep_calls, frame >>

EmuThreadFunc == Emu_Loop \/ Emu_Cycle

TimerThreadFunc == Timer_Loop \/ Timer_Tick

RenderThreadFunc ==
    Render_Loop \/ Render_Wait \/ Render_Poll \/ Render_Draw \/ Render_Unset

AudioThreadFunc ==
    Audio_PollStart \/ Audio_WaitStart \/ Audio_PollStop \/ Audio_WaitStop

RunFunc == Run_Poll \/ Run_Join

NextRun ==
    \/ RequestShutdown
    \/ EmuThreadFunc \/ TimerThreadFunc \/ RenderThreadFunc \/ AudioThreadFunc
    \/ RunFunc

SpecRun == InitRun /\ [][NextRun]_vars

\* every thread that can take a step takes one in the end: the scheduler
\* starves none, and sleeps and timed waits end because time advances.
\* Emu_Cycle can be taken whenever the emulation thread is at "cycle" and
\* leaves it, so weak fairness of Emu_Cycle is that the thread is not at
\* "cycle" for ever.
SpecRunFair ==
    /\ SpecRun
    /\ WF_vars(Emu_Loop)
    /\ []<>(emu_thread # "cycle" \/ status # Running)
    /\ WF_vars(TimerThreadFunc)
    /\ WF_vars(RenderThreadFunc)
    /\ WF_vars(AudioThreadFunc)
    /\ WF_vars(RunFunc)

(***************************************************************************)
(* Properties of the wait for a key (FX0A).                                *)
(***************************************************************************)
Keys == 0 .. user_input_key_count - 1

IsFX0A(opcode) == opcode # None /\ opcode \div 4096 = 15 /\ opcode % 256 = 10

IsCall(opcode) == opcode # None /\ opcode \div 4096 = 2

IsRet(opcode) == opcode = 238

\* emulate_cycle ran, found no wait pending and fetched an FX0A
RanFX0A ==
    /\ last.op = "emulate_cycle"
    /\ last.register_awaiting_input = None
    /\ IsFX0A(last.opcode)

\* C1: an emulate_cycle that executes FX0A sets register_awaiting_input to X
\* and leaves pc and cycles_emulated as they were before the call.
C1_FX0ALeavesPcAndCycles ==
    RanFX0A =>
        /\ register_awaiting_input = (last.opcode \div 256) % 16
        /\ pc = last.pc
        /\ cycles_emulated = last.cycles_emulated

\* C2: while a wait is pending, a call of emulate_cycle changes nothing of the
\* emulator's state.
C2_AwaitingCycleChangesNothing ==
    [][ (register_awaiting_input # None /\ last'.op = "emulate_cycle")
            => UNCHANGED emuVars ]_vars

C2_Witness ==
    /\ last.op = "emulate_cycle"
    /\ last.register_awaiting_input # None
    /\ register_awaiting_input # None
    /\ cycles_emulated > 0

\* update_user_input ran while a wait was pending
DeliveredWhileAwaiting ==
    /\ last.op = "update_user_input"
    /\ last.register_awaiting_input # None

\* the keys the delivery took from not pressed to pressed
DeliveredEdges == {k \in Keys : ~last.input[k] /\ last.new_input[k]}

\* C3: a delivery with a key going from not pressed to pressed, made while
\* awaiting_input = x, stores such a key in V[x], advances pc by 2, adds 1 to
\* cycles_emulated and clears awaiting_input.
C3_KeyPressResolvesWait ==
    (DeliveredWhileAwaiting /\ DeliveredEdges # {}) =>
        /\ V[last.register_awaiting_input] \in DeliveredEdges
        /\ pc = U16(last.pc + 2)
        /\ cycles_emulated = last.cycles_emulated + 1
        /\ register_awaiting_input = None

C3_Witness ==
    /\ DeliveredWhileAwaiting
    /\ DeliveredEdges # {}
    /\ register_awaiting_input = None
    /\ V[last.register_awaiting_input] = 1

\* C4: a delivery that holds releases or already pressed keys only, made
\* while awaiting_input is set, leaves awaiting_input, pc, cycles_emulated and
\* the registers as they were; the latch takes the delivered array, so a key
\* held down all along never becomes a new press.
C4_NoEdgeNoResolve ==
    (DeliveredWhileAwaiting /\ DeliveredEdges = {}) =>
        /\ register_awaiting_input = last.register_awaiting_input
        /\ pc = last.pc
        /\ cycles_emulated = last.cycles_emulated
        /\ V = last.V
        /\ input = last.new_input

\* a delivery that released one key and kept another one down
C4_Witness ==
    /\ DeliveredWhileAwaiting
    /\ DeliveredEdges = {}
    /\ \E k \in Keys : last.input[k] /\ last.new_input[k]
    /\ \E k \in Keys : last.input[k] /\ ~last.new_input[k]
    /\ register_awaiting_input # None

\* C5: awaiting_input goes from unset to set only in an emulate_cycle that
\* fetched FX0A, and from set to unset only in an update_user_input that
\* delivers a key going from not pressed to pressed.
C5_WaitTransitions ==
    [][ /\ (register_awaiting_input = None /\ register_awaiting_input' # None)
            => /\ last'.op = "emulate_cycle"
               /\ IsFX0A(last'.opcode)
               /\ register_awaiting_input' = (last'.opcode \div 256) % 16
        /\ (register_awaiting_input # None /\ register_awaiting_input' = None)
            => /\ last'.op = "update_user_input"
               /\ \E k \in Keys : ~input[k] /\ last'.new_input[k]
        /\ (register_awaiting_input # None /\ register_awaiting_input' # None)
            => register_awaiting_input' = register_awaiting_input ]_vars

\* a timer tick that found the wait pending and left it pending
C5_Witness ==
    /\ last.op = "decrement_timers"
    /\ last.register_awaiting_input # None
    /\ register_awaiting_input = last.register_awaiting_input
    /\ \E k \in Keys : input[k]

C9_StackOverflowIsFatal ==
    /\ sp >= 0
    /\ sp <= max_stack_depth
    /\ (last.op = "emulate_cycle" /\ IsCall(last.opcode)
            /\ last.sp = max_stack_depth)
         => (Dead(Cur) /\ sp = last.sp)

\* C10: a 00EE executed with sp = 0 ends the process; sp stays 0 and pc is not
\* loaded from the stack.
C10_StackUnderflowIsFatal ==
    (last.op = "emulate_cycle" /\ IsRet(last.opcode) /\ last.sp = 0) =>
        /\ Dead(Cur)
        /\ sp = 0
        /\ pc = last.pc
        /\ cycles_emulated = last.cycles_emulated

\* the underflow after calls and returns have happened
C10_Witness ==
    /\ last.op = "emulate_cycle"
    /\ IsRet(last.opcode)
    /\ last.sp = 0
    /\ status = Aborted
    /\ cycles_emulated > 0


(***************************************************************************)
(* Properties of the fetch and of the dispatch.                            *)
(***************************************************************************)
\* the emulator's state but for status
emuData == << memory, gfx, stack_trace, V, input, idx, pc, sp, delay_timer,
              sound_timer, register_awaiting_input, cycles_emulated,
              draw_flag, beep_flag >>

\* C11: an emulate_cycle entered with no wait pending and pc > 4094 fails the
\* assertion of the fetch: the process aborts and nothing of the emulator's
\* state has changed, so no opcode was executed.
C11_FetchBeyondMemoryIsFatal ==
    [][ (last'.op = "emulate_cycle" /\ register_awaiting_input = None
            /\ pc > memory_size_bytes - 2)
            => (status' = Aborted /\ UNCHANGED emuData) ]_vars

\* the fetch at 4096, after the 00E0 in the last two bytes of the memory
C11_Witness ==
    /\ last.op = "emulate_cycle"
    /\ last.pc = memory_size_bytes
    /\ last.prev_opcode = 224
    /\ status = Aborted
    /\ pc = memory_size_bytes

\* the opcode reads or writes memory[idx + i] for some idx + i >= 4096
TouchesBeyondMemory(opcode) ==
    LET hi == opcode \div 4096
        X == (opcode \div 256) % 16
        N == opcode % 16
        NN == opcode % 256
    IN  \/ hi = 13 /\ N > 0 /\ idx + N - 1 >= memory_size_bytes
        \/ hi = 15 /\ NN = 51 /\ idx + 2 >= memory_size_bytes
        \/ hi = 15 /\ NN \in { 85, 101 } /\ idx + X >= memory_size_bytes

\* C12: a DXYN, FX33, FX55 or FX65 that touches an address >= 4096 ends the
\* process with a fatal error, and accesses nothing outside the memory.
C12_IndexAccessIsBoundsChecked ==
    [][ (last'.op = "emulate_cycle" /\ FetchedOpcode(Cur) # None
            /\ TouchesBeyondMemory(FetchedOpcode(Cur)))
            => (status' \in { Exited, Aborted } /\ memory' = memory) ]_vars

\* the opcode matches a pattern of the table of instructions
InDispatchTable(opcode) ==
    LET hi == opcode \div 4096
        N == opcode % 16
        NN == opcode % 256
    IN  \/ opcode \in { 224, 238 }
        \/ hi \in { 1, 2, 3, 4, 6, 7, 10, 11, 12, 13 }
        \/ hi \in { 5, 9 } /\ N = 0
        \/ hi = 8 /\ N \in { 0, 1, 2, 3, 4, 5, 6, 7, 14 }
        \/ hi = 14 /\ NN \in { 158, 161 }
        \/ hi = 15 /\ NN \in { 7, 10, 21, 24, 30, 41, 51, 85, 101 }

\* C13: an emulate_cycle that fetches a word matching no pattern of the
\* table ends the process and changes nothing of the emulator's state.
C13_UnknownOpcodeIsFatal ==
    [][ (last'.op = "emulate_cycle" /\ FetchedOpcode(Cur) # None
            /\ ~InDispatchTable(FetchedOpcode(Cur)))
            => (status' \in { Exited, Aborted } /\ UNCHANGED emuData) ]_vars

\* 1NNN, 2NNN, BNNN and 00EE set pc themselves
IsControlFlow(opcode) == opcode \div 4096 \in { 1, 2, 11 } \/ opcode = 238

IsSkip(opcode) ==
    \/ opcode \div 4096 \in { 3, 4 }
    \/ opcode \div 4096 \in { 5, 9 } /\ opcode % 16 = 0
    \/ opcode \div 4096 = 14 /\ opcode % 256 \in { 158, 161 }

\* the condition of a skip opcode, on the registers regs and the key latch keys
SkipCondition(opcode, regs, keys) ==
    LET hi == opcode \div 4096
        Vx == regs[(opcode \div 256) % 16]
        Vy == regs[(opcode \div 16) % 16]
        KK == opcode % 256
    IN  CASE hi = 3 -> Vx = KK
          [] hi = 4 -> Vx # KK
          [] hi = 5 -> Vx = Vy
          [] hi = 9 -> Vx # Vy
          [] hi = 14 /\ KK = 158 -> Vx \in Keys /\ keys[Vx]
          [] hi = 14 /\ KK = 161 -> Vx \in Keys /\ ~keys[Vx]
          [] OTHER -> FALSE

\* C14: an instruction of the table that is executed and is not 1NNN, 2NNN,
\* BNNN or 00EE, not a skip whose condition holds and not FX0A leaves pc 2
\* higher; 6A15 sets V[10] to 0x15 and changes nothing else but pc and the
\* cycle count.
C14_PlainInstructionAdvancesPcBy2 ==
    [][ LET opcode == FetchedOpcode(Cur)
        IN  (/\ last'.op = "emulate_cycle"
             /\ opcode # None
             /\ InDispatchTable(opcode)
             /\ status' = Running
             /\ ~IsControlFlow(opcode)
             /\ ~(IsSkip(opcode) /\ SkipCondition(opcode, V, input))
             /\ ~IsFX0A(opcode))
            => /\ pc' = pc + 2
               /\ opcode = 27157 =>
                     /\ V' = [V EXCEPT ![10] = 21]
                     /\ cycles_emulated' = cycles_emulated + 1
                     /\ UNCHANGED << memory, gfx, stack_trace, input, idx, sp,
                                     delay_timer, sound_timer,
                                     register_awaiting_input, draw_flag,
                                     beep_flag >> ]_vars

\* the ROM 6A 15 after one cycle
C14_Witness ==
    /\ last.op = "emulate_cycle"
    /\ last.opcode = 27157
    /\ last.pc = rom_memory_offset
    /\ last.V[10] = 0
    /\ V[10] = 21
    /\ pc = rom_memory_offset + 2
    /\ cycles_emulated = 1
    /\ status = Running

\* C15: a skip opcode (3XKK, 4XKK, 5XY0, 9XY0, and EX9E, EXA1 on a key number
\* Vx of the latch) leaves pc 4 higher when its condition holds and 2 higher
\* otherwise, and changes no register, no memory and no pixel.
C15_SkipAdvancesPcBy4Or2 ==
    [][ LET opcode == FetchedOpcode(Cur)
        IN  (/\ last'.op = "emulate_cycle"
             /\ opcode # None
             /\ IsSkip(opcode)
             /\ opcode \div 4096 = 14 => V[(opcode \div 256) % 16] \in Keys)
            => /\ pc' = pc + (IF SkipCondition(opcode, V, input) THEN 4 ELSE 2)
               /\ status' = Running
               /\ UNCHANGED << memory, gfx, stack_trace, V, input, idx, sp,
                               delay_timer, sound_timer,
                               register_awaiting_input, draw_flag,
                               beep_flag >> ]_vars

\* EX9E on a key that is down: the skip is taken
C15_Witness ==
    /\ last.op = "emulate_cycle"
    /\ last.opcode \div 4096 = 14
    /\ last.opcode % 256 = 158
    /\ last.V[(last.opcode \div 256) % 16] = 1
    /\ last.input[1]
    /\ pc = last.pc + 4
    /\ status = Running


(***************************************************************************)
(* Properties of the arithmetic.                                           *)
(***************************************************************************)
\* the emulate_cycle of this step fetches 8XYN with the last digit N
IsAlu(opcode, N) == opcode # None /\ opcode \div 4096 = 8 /\ opcode % 16 = N

DigitX(opcode) == (opcode \div 256) % 16

DigitY(opcode) == (opcode \div 16) % 16

\* C16: 8XY4 with X # 15, for every Y (15 and X included): with a = Vx and
\* b = Vy before the instruction, afterwards VF = 1 if a + b > 255 else 0 and
\* Vx = (a + b) mod 256.
C16_AddSetsCarryAndWraps ==
    [][ LET opcode == FetchedOpcode(Cur)
        IN  (last'.op = "emulate_cycle" /\ IsAlu(opcode, 4)
                /\ DigitX(opcode) # 15)
            => LET a == V[DigitX(opcode)]
                   b == V[DigitY(opcode)]
               IN  /\ V'[15] = (IF a + b > 255 THEN 1 ELSE 0)
                   /\ V'[DigitX(opcode)] = (a + b) % 256 ]_vars

C18_ShiftsUseVxOnly ==
    [][ LET opcode == FetchedOpcode(Cur)
        IN  (last'.op = "emulate_cycle"
                /\ (IsAlu(opcode, 6) \/ IsAlu(opcode, 14))
                /\ DigitX(opcode) # 15)
            => LET a == V[DigitX(opcode)]
               IN  IF IsAlu(opcode, 6)
                   THEN /\ V'[15] = a % 2
                        /\ V'[DigitX(opcode)] = a \div 2
                   ELSE /\ V'[15] = (IF a >= 128 THEN 1 ELSE 0)
                        /\ V'[DigitX(opcode)] = (a * 2) % 256 ]_vars

\* 8XYE on a = 255 with another value in Vy
C18_Witness ==
    /\ last.op = "emulate_cycle"
    /\ IsAlu(last.opcode, 14)
    /\ DigitX(last.opcode) = 0
    /\ DigitY(last.opcode) = 1
    /\ last.V[0] = 255
    /\ last.V[1] = 2
    /\ V[0] = 254
    /\ V[15] = 1

\* bit k of the byte v
Bit(v, k) == (v \div Pow2(k)) % 2

IsDraw(opcode) == opcode # None /\ opcode \div 4096 = 13

\* the flag the table of instructions defines for a flag-producing opcode,
\* from the registers, the memory and the display before the instruction
TableFlag(opcode) ==
    LET a == V[DigitX(opcode)]
        b == V[DigitY(opcode)]
        Flag(c) == IF c THEN 1 ELSE 0
    IN  CASE IsAlu(opcode, 4) -> Flag(a + b > 255)
          [] IsAlu(opcode, 5) -> Flag(a > b)
          [] IsAlu(opcode, 6) -> a % 2
          [] IsAlu(opcode, 7) -> Flag(b > a)
          [] IsAlu(opcode, 14) -> Flag(a >= 128)
          [] IsDraw(opcode) ->
               Flag(\E r \in 0 .. (opcode % 16) - 1, c \in 0 .. 7 :
                       /\ Bit(MemAt(memory, idx + r), 7 - c) = 1
                       /\ ((b + r) % display_grid_height) * display_grid_width
                              + ((a + c) % display_grid_width) \in gfx)

\* C19: after 8XY4, 8XY5, 8XY6, 8XY7, 8XYE and DXYN, for every X and Y, VF is
\* the flag the table defines from the operands before the instruction, so
\* it is 0 or 1.
C19_FlagRegisterHoldsTheFlag ==
    [][ LET opcode == FetchedOpcode(Cur)
        IN  (/\ last'.op = "emulate_cycle"
             /\ \/ \E N \in { 4, 5, 6, 7, 14 } : IsAlu(opcode, N)
                \/ IsDraw(opcode) /\ ~TouchesBeyondMemory(opcode))
            => (V'[15] = TableFlag(opcode) /\ V'[15] \in { 0, 1 }) ]_vars

\* the last two calls of emulate_cycle executed 6XKK and then 7XKK' on the
\* same X, with nothing in between
AddAfterLoad ==
    /\ last.op = "emulate_cycle"
    /\ last.opcode # None
    /\ last.opcode \div 4096 = 7
    /\ last.prev_op = "emulate_cycle"
    /\ last.prev_opcode # None
    /\ last.prev_opcode \div 4096 = 6
    /\ DigitX(last.prev_opcode) = DigitX(last.opcode)

\* KK + KK' of the two instructions, wrapped to 8 bits
LoadedSum == ((last.prev_opcode % 256) + (last.opcode % 256)) % 256

\* C20 as stated: for every X in 0..15, 6XKK followed by 7XKK' leaves
\* Vx = (KK + KK') mod 256 and VF as it was before the two instructions.
C20_LoadThenAddAnyRegister ==
    AddAfterLoad =>
        /\ V[DigitX(last.opcode)] = LoadedSum
        /\ V[15] = last.prev_V[15]

\* C20 amended: 6XKK followed by 7XKK' leaves Vx = (KK + KK') mod 256 for
\* every X in 0..15, and leaves VF as it was before the two instructions
\* for every X in 0..14 (for X = 15, VF is the register written).
C20_LoadThenAddWraps ==
    AddAfterLoad =>
        /\ V[DigitX(last.opcode)] = LoadedSum
        /\ DigitX(last.opcode) # 15 => V[15] = last.prev_V[15]

\* 60FF 7002 with VF = 1 before: V0 wraps to 1 and VF is still 1
C20_Witness ==
    /\ AddAfterLoad
    /\ DigitX(last.opcode) = 0
    /\ last.prev_opcode % 256 = 255
    /\ last.opcode % 256 = 2
    /\ last.prev_V[15] = 1
    /\ V[0] = 1
    /\ V[15] = 1


(***************************************************************************)
(* Properties of the display.                                              *)
(***************************************************************************)
\* the pixels of the sprite of DXYN: row r, column c for every bit 7 - c of
\* memory[index + r] that is 1, at (Vx + c) mod 64, (Vy + r) mod 32
SpritePixels(opcode, regs, mem, index) ==
    { ((regs[DigitY(opcode)] + r) % display_grid_height) * display_grid_width
        + ((regs[DigitX(opcode)] + c) % display_grid_width) :
        << r, c >> \in { rc \in (0 .. (opcode % 16) - 1) \X (0 .. 7) :
                           Bit(MemAt(mem, index + rc[1]), 7 - rc[2]) = 1 } }

\* the pixels that are in exactly one of the two sets
Toggled(pixels, sprite) == (pixels \ sprite) \cup (sprite \ pixels)

\* C21: DXYN, for every X, Y and N, with Vx, Vy and index taken before the
\* instruction: the pixels toggled are those of the set bits of the sprite
\* rows, every other pixel is unchanged, and VF = 1 iff a pixel went from on
\* to off, else 0.
C21_DrawTogglesSpritePixels ==
    [][ LET opcode == FetchedOpcode(Cur)
        IN  (last'.op = "emulate_cycle" /\ IsDraw(opcode)
                /\ ~TouchesBeyondMemory(opcode))
            => LET sprite == SpritePixels(opcode, V, memory, idx)
               IN  /\ gfx' = Toggled(gfx, sprite)
                   /\ V'[15] = (IF sprite \cap gfx # {} THEN 1 ELSE 0) ]_vars

\* the last two calls of emulate_cycle executed the same DXYN, with Vx and Vy
\* the same at both, and the sprite has a set bit
DrewTwice ==
    /\ last.op = "emulate_cycle"
    /\ IsDraw(last.opcode)
    /\ last.prev_op = "emulate_cycle"
    /\ last.prev_opcode = last.opcode
    /\ last.V[DigitX(last.opcode)] = last.prev_V[DigitX(last.opcode)]
    /\ last.V[DigitY(last.opcode)] = last.prev_V[DigitY(last.opcode)]
    /\ ~(idx + (last.opcode % 16) > memory_size_bytes)
    /\ \E r \in 0 .. (last.opcode % 16) - 1 : MemAt(memory, idx + r) # 0

\* C22: the same DXYN executed twice in a row leaves the display as it was
\* before the first draw; when that display was empty, the second draw sets
\* VF = 1 and leaves no pixel on.
C22_DrawTwiceRestoresDisplay ==
    DrewTwice =>
        /\ gfx = last.prev_gfx
        /\ last.prev_gfx = {} => (V[15] = 1 /\ gfx = {})


\* C23: after the ROM is loaded the display changes only in a call of
\* emulate_cycle that executes 00E0 or DXYN, and 00E0 leaves every pixel off;
\* every other opcode, timer tick and input delivery leaves the pixels alone.
C23_OnlyClearAndDrawChangeDisplay ==
    [][ LET opcode == FetchedOpcode(Cur)
        IN  /\ gfx' # gfx =>
                  /\ last'.op = "emulate_cycle"
                  /\ opcode = 224 \/ IsDraw(opcode)
            /\ (last'.op = "emulate_cycle" /\ opcode = 224) => gfx' = {} ]_vars

\* a timer tick, an input delivery and an opcode that is neither 00E0 nor DXYN
\* have each run on a display with pixels on
C23_Witness ==
    /\ gfx # {}
    /\ gfx = last.gfx
    /\ \/ last.op = "decrement_timers" /\ last.prev_op = "update_user_input"
       \/ /\ last.op = "emulate_cycle" /\ last.opcode = 61797
          /\ last.prev_op = "update_user_input"


(***************************************************************************)
(* Properties of the timers.                                               *)
(***************************************************************************)
\* a timer after one tick
Ticked(timer) == IF timer > 0 THEN timer - 1 ELSE 0

\* FX07
IsReadDelay(opcode) ==
    opcode # None /\ opcode \div 4096 = 15 /\ opcode % 256 = 7

\* FX18
IsSetSound(opcode) ==
    opcode # None /\ opcode \div 4096 = 15 /\ opcode % 256 = 24

\* the last FX15 wrote 10 and decrement_timers has run 10 times or more since
TenTicksAfterTen(h) == h.delay_written = 10 /\ h.ticks # None /\ h.ticks >= 10

\* C24: a call of decrement_timers lowers each of the two timers by 1 when it
\* is above 0 and leaves it at 0 otherwise; once FX15 has written 10 and 10
\* ticks have followed, among any cycles that do not write the timer,
\* delay_timer is 0 and FX07 puts 0 in Vx.
C24_TimersCountDownToZero ==
    [][ /\ last'.op = "decrement_timers" =>
              /\ delay_timer' = Ticked(delay_timer)
              /\ sound_timer' = Ticked(sound_timer)
        /\ TenTicksAfterTen(last') => delay_timer' = 0
        /\ (last'.op = "emulate_cycle" /\ IsReadDelay(last'.opcode)
              /\ TenTicksAfterTen(last'))
            => V'[DigitX(last'.opcode)] = 0 ]_vars

\* FX07 has run after FX15 wrote 10 and ten ticks followed, and a tick has
\* found both timers at 0
C24_Witness ==
    /\ last.op = "emulate_cycle"
    /\ IsReadDelay(last.opcode)
    /\ last.prev_op = "decrement_timers"
    /\ TenTicksAfterTen(last)
    /\ V[DigitX(last.opcode)] = 0
    /\ last.ticks = 10

C26_BeepTracksSoundTimer ==
    /\ status # Aborted
    /\ timer_mutex = NoThread => (beep_flag <=> sound_timer > 0)

\* decrement_timers has brought the beep of 6002 F018 to its end and unset
\* the flag, while the emulation thread waits for timer_mutex
C26_Witness ==
    /\ tpc = "unlock"
    /\ timer_mutex = TimerThread
    /\ V[0] = 2
    /\ cycles_emulated >= 2
    /\ sound_timer = 0
    /\ ~beep_flag
    /\ epc = "timer"



(***************************************************************************)
(* Properties of loading.                                                  *)
(***************************************************************************)
\* memory[a] is what reset wrote there: the fontset below 80, 0 above
AsResetWrote(mem, a) == MemAt(mem, a) = (IF a < 80 THEN chip8_fontset[a + 1] ELSE 0)

\* C27: after every init that succeeds, whatever the state it found:
\* memory[0 .. 79] is the fontset, the registers, index, sp, the timers and
\* cycles_emulated are 0, pc is 0x200, no key is pressed, no register awaits
\* a key, every pixel is off, and the memory outside the fontset and the
\* bytes of the ROM is 0.
C27_InitStartsFresh ==
    (last.op = "init" /\ status = Running) =>
        /\ \A a \in 0 .. 79 : MemAt(memory, a) = chip8_fontset[a + 1]
        /\ \A i \in 0 .. register_count - 1 : V[i] = 0
        /\ idx = 0
        /\ pc = 512
        /\ sp = 0
        /\ delay_timer = 0
        /\ sound_timer = 0
        /\ \A k \in 0 .. user_input_key_count - 1 : ~input[k]
        /\ register_awaiting_input = None
        /\ gfx = {}
        /\ cycles_emulated = 0
        /\ \A a \in 80 .. memory_size_bytes - 1 :
              (a < rom_memory_offset \/ a >= rom_memory_offset + Len(last.rom))
                  => MemAt(memory, a) = 0

\* an init has succeeded that found registers, the stack, the display and a
\* pending FX0A left by a program that ran
C27_Witness ==
    /\ last.op = "init"
    /\ status = Running
    /\ last.cycles_emulated > 0
    /\ last.V[0] = 3
    /\ last.sp = 1
    /\ last.gfx # {}
    /\ last.register_awaiting_input # None
    /\ V[0] = 0

\* C28: init accepts a ROM file of n bytes iff n <= 3584; then
\* memory[0x200 + i] is byte i of the file for every i < n and the addresses
\* below 0x200 are as reset wrote them; a larger file ends the process and
\* none of its bytes is written.
C28_RomSizeLimit ==
    [][ last'.op = "init" =>
          LET n == Len(last'.rom)
          IN  IF n <= 3584
              THEN /\ status' = Running
                   /\ \A i \in 0 .. n - 1 :
                         MemAt(memory', 512 + i) = last'.rom[i + 1]
                   /\ \A a \in 0 .. 511 : AsResetWrote(memory', a)
              ELSE /\ status' # Running
                   /\ memory' = memory ]_vars

\* the largest file that fits has been loaded, up to the last byte of memory
C28_Witness ==
    /\ last.op = "init"
    /\ Len(last.rom) = 3584
    /\ status = Running
    /\ MemAt(memory, 4095) = last.rom[3584]
    /\ MemAt(memory, 4095) # 0



(***************************************************************************)
(* Properties of FX33, FX55 and FX65.                                      *)
(***************************************************************************)
\* FXNN with the low byte NN
IsFx(opcode, NN) == opcode # None /\ opcode \div 4096 = 15 /\ opcode % 256 = NN

\* every byte of the memory is the same in mem1 and mem2 but those at Addrs
SameMemoryBut(mem1, mem2, Addrs) ==
    \A a \in (DOMAIN mem1 \cup DOMAIN mem2) \ Addrs :
        MemAt(mem1, a) = MemAt(mem2, a)

\* C29: FX33 with index + 2 < 4096, for every value v of Vx: afterwards
\* memory[index], memory[index + 1] and memory[index + 2] are decimal digits
\* with 100 * memory[index] + 10 * memory[index + 1] + memory[index + 2] = v,
\* and Vx, index and the rest of the memory are as before.
C29_BcdStoresThreeDigits ==
    [][ LET opcode == FetchedOpcode(Cur)
        IN  (last'.op = "emulate_cycle" /\ IsFx(opcode, 51) /\ idx + 2 < 4096)
            => LET h == MemAt(memory', idx)
                   t == MemAt(memory', idx + 1)
                   o == MemAt(memory', idx + 2)
               IN  /\ h \in 0 .. 9 /\ t \in 0 .. 9 /\ o \in 0 .. 9
                   /\ 100 * h + 10 * t + o = V[DigitX(opcode)]
                   /\ V' = V
                   /\ idx' = idx
                   /\ SameMemoryBut(memory, memory', idx .. idx + 2) ]_vars

\* FX33 has stored the digits 2, 5, 5 in the last three bytes of the memory
C29_Witness ==
    /\ last.op = "emulate_cycle"
    /\ IsFx(last.opcode, 51)
    /\ idx = 4093
    /\ last.V[DigitX(last.opcode)] = 255
    /\ MemAt(memory, 4093) = 2
    /\ MemAt(memory, 4094) = 5
    /\ MemAt(memory, 4095) = 5

\* C30: with index + X < 4096, FX55 copies V0 .. Vx to memory[index ..
\* index + X] and FX65 copies memory[index .. index + X] to V0 .. Vx; both
\* leave index, the registers above X and the rest of the memory as they
\* were, and FX65 right after FX55 with the same X leaves every register as
\* it was before the two.
C30_StoreAndLoadRegisters ==
    [][ LET opcode == FetchedOpcode(Cur)
            X == DigitX(opcode)
        IN  /\ (last'.op = "emulate_cycle" /\ IsFx(opcode, 85) /\ idx + X < 4096)
                => /\ \A i \in 0 .. X : MemAt(memory', idx + i) = V[i]
                   /\ SameMemoryBut(memory, memory', idx .. idx + X)
                   /\ V' = V
                   /\ idx' = idx
            /\ (last'.op = "emulate_cycle" /\ IsFx(opcode, 101) /\ idx + X < 4096)
                => /\ \A i \in 0 .. X : V'[i] = MemAt(memory, idx + i)
                   /\ \A i \in X + 1 .. 15 : V'[i] = V[i]
                   /\ memory' = memory
                   /\ idx' = idx
                   /\ (last.op = "emulate_cycle" /\ IsFx(last.opcode, 85)
                         /\ DigitX(last.opcode) = X)
                      => V' = last.V ]_vars

\* FX65 has loaded V0 .. VF from the fontset, and elsewhere F155 and F165
\* have gone through the last two bytes of the memory
C30_Witness ==
    /\ last.op = "emulate_cycle"
    /\ IsFx(last.opcode, 101)
    /\ last.prev_op = "emulate_cycle"
    /\ IsFx(last.prev_opcode, 85)
    /\ DigitX(last.opcode) = 1
    /\ idx = 4094
    /\ V[0] = 255
    /\ V[1] = 7
    /\ MemAt(memory, 4094) = 255
    /\ MemAt(memory, 4095) = 7
    /\ status = Running


(***************************************************************************)
(* Properties of the fontset.                                              *)
(***************************************************************************)
\* the 5 rows of the glyph of hex digit d
Glyph(d) == [r \in 0 .. 4 |-> chip8_fontset[5 * d + r + 1]]

\* the pixels of the glyph of d with its top left corner at (x, y)
GlyphPixels(d, x, y) ==
    { ((y + r) % display_grid_height) * display_grid_width
        + ((x + c) % display_grid_width) :
        << r, c >> \in { rc \in (0 .. 4) \X (0 .. 7) :
                           Bit(Glyph(d)[rc[1]], 7 - rc[2]) = 1 } }

\* C31: FX29 sets index to 5 * Vx, and after a ROM load, for every Vx in
\* 0 .. 15, the 5 bytes from that address are the rows of the glyph of hex
\* digit Vx, so that a DXY5 that follows toggles the pixels of that glyph.
C31_FontAddressOfDigit ==
    [][ LET opcode == FetchedOpcode(Cur)
            X == DigitX(opcode)
        IN  /\ (last'.op = "emulate_cycle" /\ IsFx(opcode, 41) /\ V[X] < 16)
                => /\ idx' = 5 * V[X]
                   /\ \A r \in 0 .. 4 :
                          MemAt(memory', idx' + r) = Glyph(V[X])[r]
            /\ (last'.op = "emulate_cycle" /\ IsDraw(opcode) /\ opcode % 16 = 5
                  /\ last.op = "emulate_cycle" /\ IsFx(last.opcode, 41)
                  /\ last.V[DigitX(last.opcode)] < 16
                  /\ X # 15 /\ DigitY(opcode) # 15)
                => gfx' = Toggled(gfx, GlyphPixels(
                              last.V[DigitX(last.opcode)],
                              V[X], V[DigitY(opcode)])) ]_vars

\* F029 with V0 = 15 has set index to 75 and D125 has drawn the glyph of F
\* on the blank display
C31_Witness ==
    /\ last.op = "emulate_cycle"
    /\ IsDraw(last.opcode)
    /\ last.prev_op = "emulate_cycle"
    /\ IsFx(last.prev_opcode, 41)
    /\ V[0] = 15
    /\ idx = 75
    /\ gfx = { 0, 1, 2, 3, 64, 128, 129, 130, 131, 192, 256 }
    /\ status = Running


(***************************************************************************)
(* Properties of CXKK.                                                     *)
(***************************************************************************)
\* CXKK
IsRnd(opcode) == opcode # None /\ opcode \div 4096 = 12

C33_DigitFromTheTop ==
    digit # None
        => /\ digit = (digit_opcode \div Pow2(12 - 4 * digit_index)) % 16
           /\ digit \in 0 .. 15
           /\ digit_opcode =
                  4096 * ith_hex_digit(0, digit_opcode)
                  + 256 * ith_hex_digit(1, digit_opcode)
                  + 16 * ith_hex_digit(2, digit_opcode)
                  + ith_hex_digit(3, digit_opcode)

\* ith_hex_digit<1>(0x0AB0) has returned 0xA
C33_Witness == digit_opcode = 2736 /\ digit_index = 1 /\ digit = 10


(***************************************************************************)
(* Properties of the Timer class.                                          *)
(***************************************************************************)
\* C34: a Timer written with v counts down at 60 Hz however it is read: a
\* read at time T after the write returns max(0, v - floor(T / PERIOD)),
\* whatever reads came in between and also after more than 255 periods.
C34_ReadsFollowTheClock ==
    returned.called
        => LET elapsed == (returned.at - written.at) \div PERIOD
           IN  returned.value =
                   (IF written.value > elapsed THEN written.value - elapsed
                    ELSE 0)


(***************************************************************************)
(* Properties of FX0A from the fetch to the key press.                     *)
(***************************************************************************)
\* update_user_input has just resolved the wait of an FX0A
ResolvedWait ==
    /\ DeliveredWhileAwaiting
    /\ register_awaiting_input = None
    /\ last.wait_pc # None

\* C35: once an FX0A fetched at address a has executed and a later key press
\* k has resolved it, pc = a + 2, cycles_emulated is 1 more than before the
\* FX0A was fetched and V[X] = k, so that the next cycle executes the
\* instruction that follows the FX0A.
C35_WaitEndsAfterTheFX0A ==
    ResolvedWait =>
        /\ pc = U16(last.wait_pc + 2)
        /\ cycles_emulated = last.wait_cycles + 1
        /\ V[last.register_awaiting_input] \in DeliveredEdges


(***************************************************************************)
(* Properties of update_user_input given several keys at once.             *)
(***************************************************************************)
\* C36: one update_user_input that delivers several keys going from not
\* pressed to pressed while awaiting_input is set resolves the wait once:
\* V[x] receives the lowest of these keys, pc advances by 2 and
\* cycles_emulated by 1, and no other register changes; and after every
\* update_user_input, resolving or not, the latch is the delivered array.
C36_LowestKeyResolvesOnce ==
    /\ (DeliveredWhileAwaiting /\ Cardinality(DeliveredEdges) >= 2) =>
           LET x == last.register_awaiting_input
           IN  /\ V[x] \in DeliveredEdges
               /\ \A k \in DeliveredEdges : V[x] <= k
               /\ \A i \in 0 .. 15 : i # x => V[i] = last.V[i]
               /\ pc = U16(last.pc + 2)
               /\ cycles_emulated = last.cycles_emulated + 1
               /\ register_awaiting_input = None
    /\ last.op = "update_user_input" => input = last.new_input

\* keys 0 and 1 went down in the same delivery and V[x] took key 0
C36_Witness ==
    /\ DeliveredWhileAwaiting
    /\ DeliveredEdges = { 0, 1 }
    /\ V[last.register_awaiting_input] = 0
    /\ register_awaiting_input = None
    /\ input[0] /\ input[1]


(***************************************************************************)
(* Properties of the instructions that take a key or a digit from Vx.      *)
(***************************************************************************)
\* EX9E or EXA1
IsKeySkip(opcode) ==
    opcode # None /\ opcode \div 4096 = 14 /\ opcode % 256 \in { 158, 161 }

InResolvingBranch ==
    rpc \in { "resolve", "resolve_pc", "resolve_pc_store", "resolve_count",
              "resolve_count_store" }

\* the emulation thread is past the check of register_awaiting_input and has
\* not yet finished the emulate_cycle call
InsideCycle ==
    epc \in { "fetch", "execute", "wait_key", "clear", "clearing", "draw",
              "drawing", "set_draw", "bump", "bump_store", "count",
              "count_store" }

\* the emulation thread is changing the display or has changed it and not
\* yet called _draw_flag.set()
DrawSetPending == epc \in { "clearing", "drawing", "set_draw" }

\* C38: no change of the display is lost by the draw_flag handshake: the
\* render thread is never back at the head of its loop with draw_flag unset,
\* no _draw_flag.set() to come, and a snapshot drawn that is not the display
\* (from there draw_flag stays unset and the display is never drawn unless
\* the program changes it once more).
C38_NoDisplayChangeIsLost ==
    (rpc = "wait_draw" /\ ~draw_flag /\ ~DrawSetPending) => buffer = gfx

\* the calls alternate and start_beep is the first one
Alternating(callsOfBeep) ==
    \A i \in 1 .. Len(callsOfBeep) :
        callsOfBeep[i] = (IF i % 2 = 1 THEN "start_beep" ELSE "stop_beep")

\* C39: the audio thread's calls of start_beep and stop_beep alternate,
\* beginning with start_beep, and when the thread has returned every
\* start_beep has been followed by a stop_beep.
C39_BeepCallsAlternate ==
    /\ Alternating(beep_calls)
    /\ audio_thread = "done" => Len(beep_calls) % 2 = 0

\* the audio thread has started a beep, stopped it when the sound timer ran
\* out, started the next one and stopped that one on its way out at shutdown
C39_Witness ==
    /\ audio_thread = "done"
    /\ Len(beep_calls) = 4
    /\ beep_flag

\* run() has joined the four threads and returned
ShutdownComplete ==
    /\ emu_thread = "done"
    /\ timer_thread = "done"
    /\ audio_thread = "done"
    /\ render_thread = "done"
    /\ run_pc = "returned"

\* C40: once shutdown_flag is set, the emulation, timer, audio and render
\* threads leave their loops and run() joins the four and returns, also while
\* FX0A waits for a key and when no draw or beep request arrives.
C40_ShutdownCompletes == shutdown_flag ~> ShutdownComplete

\* run() has returned with the interpreter still waiting in FX0A, after a
\* run in which start_beep was never called
C40_Witness ==
    /\ ShutdownComplete
    /\ register_awaiting_input # None
    /\ beep_calls = << >>
    /\ ~draw_flag

\* C6: the resolving branch of update_user_input never runs while the
\* emulation thread is between the check at the top of emulate_cycle and the
\* end of that call.
C6_ResolveSerializedWithCycle == ~(InResolvingBranch /\ InsideCycle)

\* C7: every array copy_screen_state fills is the display as a completed 00E0
\* or DXYN (or the reset) left it, which is also the display before the next
\* one starts.
C7_SnapshotIsWholeFrame ==
    [][ (rpc = "copy" /\ rpc' = "unset") => buffer' = frame ]_vars

\* a copy of a drawn display, with the emulation thread now part-way through
\* the next change of the display
C7_Witness ==
    /\ rpc = "unset"
    /\ buffer # {}
    /\ buffer = frame
    /\ epc \in { "drawing", "clearing" }
    /\ gfx # frame

====
